---- MODULE Spec2Model ----
(***************************************************************************)
(* A model of irkerd (src/irkerd.py): the IRC relay daemon.                *)
(*                                                                         *)
(* Strings that the program parses (IRC URLs) are sequences of one-        *)
(* character strings, so that parsing is computed and not assumed.         *)
(***************************************************************************)
EXTENDS Integers, Sequences, FiniteSets, TLC

(***************************************************************************)
(* Part 1.  Target: parsing of an IRC URL (pure functions).                *)
(***************************************************************************)

\* str.lower() on the characters the model uses
LowerChar(c) ==
    CASE c = "A" -> "a"
      [] c = "B" -> "b"
      [] c = "H" -> "h"
      [] c = "K" -> "k"
      [] OTHER -> c

RECURSIVE Lower(_)
Lower(s) == IF s = <<>> THEN <<>> ELSE <<LowerChar(Head(s))>> \o Lower(Tail(s))

\* str.lstrip('/')
RECURSIVE LStripSlash(_)
LStripSlash(s) ==
    IF s # <<>> /\ Head(s) = "/" THEN LStripSlash(Tail(s)) ELSE s

\* index of the first character of s that is in the set cs, 0 when none
RECURSIVE FindFirst(_, _, _)
FindFirst(s, cs, i) ==
    IF i > Len(s) THEN 0
    ELSE IF s[i] \in cs THEN i ELSE FindFirst(s, cs, i + 1)

\* index of the last character of s that is in the set cs, 0 when none
RECURSIVE FindLast(_, _, _)
FindLast(s, cs, i) ==
    IF i < 1 THEN 0
    ELSE IF s[i] \in cs THEN i ELSE FindLast(s, cs, i - 1)

Prefix(s, n) == SubSeq(s, 1, n)
Suffix(s, n) == SubSeq(s, n, Len(s))

StartsWith(s, p) == Len(s) >= Len(p) /\ Prefix(s, Len(p)) = p
EndsWith(s, p) == Len(s) >= Len(p) /\ Suffix(s, Len(s) - Len(p) + 1) = p

DigitVal(c) ==
    CASE c = "0" -> 0 [] c = "1" -> 1 [] c = "2" -> 2 [] c = "3" -> 3
      [] c = "4" -> 4 [] c = "5" -> 5 [] c = "6" -> 6 [] c = "7" -> 7
      [] c = "8" -> 8 [] c = "9" -> 9 [] OTHER -> 0

\* int() of a string of decimal digits
RECURSIVE ToInt(_, _)
ToInt(s, acc) ==
    IF s = <<>> THEN acc ELSE ToInt(Tail(s), 10 * acc + DigitVal(Head(s)))

\* str.partition(sep) at the first character of s that is in cs:
\* <<head, tail>>, the tail without the separator; no separator: <<s, <<>>>>
Partition(s, cs) ==
    LET i == FindFirst(s, cs, 1)
    IN  IF i = 0 THEN <<s, <<>>>> ELSE <<Prefix(s, i - 1), Suffix(s, i + 1)>>

\* str.rpartition('@') of the netloc: <<userinfo, hostport>>
RPartitionAt(s) ==
    LET i == FindLast(s, {"@"}, Len(s))
    IN  IF i = 0 THEN <<<<>>, s>> ELSE <<Prefix(s, i - 1), Suffix(s, i + 1)>>

\* urllib's urlsplit of "<scheme>://<netloc><path>?<query>#<fragment>", in the
\* order urllib takes the parts: the scheme ends at the first ':', the netloc
\* (after "//") at the first of "/?#", the fragment is split off at the first
\* '#' BEFORE the query is split off at the first '?'.
splitScheme(u) ==
    LET i == FindFirst(u, {":", "/", "?", "#", "@"}, 1)
    IN  IF i > 1 /\ u[i] = ":"
        THEN [scheme |-> Lower(Prefix(u, i - 1)), rest |-> Suffix(u, i + 1)]
        ELSE [scheme |-> <<>>, rest |-> u]

splitNetloc(r) ==
    IF ~StartsWith(r.rest, <<"/", "/">>)
    THEN [scheme |-> r.scheme, netloc |-> <<>>, rest |-> r.rest]
    ELSE LET i == FindFirst(r.rest, {"/", "?", "#"}, 3)
         IN  [scheme |-> r.scheme,
              netloc |-> IF i = 0 THEN Suffix(r.rest, 3) ELSE SubSeq(r.rest, 3, i - 1),
              rest   |-> IF i = 0 THEN <<>> ELSE Suffix(r.rest, i)]

splitFragment(r) ==
    LET p == Partition(r.rest, {"#"})
    IN  [scheme |-> r.scheme, netloc |-> r.netloc, rest |-> p[1],
         fragment |-> p[2]]

splitQuery(r) ==
    LET p == Partition(r.rest, {"?"})
    IN  [scheme |-> r.scheme, netloc |-> r.netloc, path |-> p[1],
         query |-> p[2], fragment |-> r.fragment]

urlsplit(u) == splitQuery(splitFragment(splitNetloc(splitScheme(u))))

\* the username, password, hostname and port properties of the result:
\* hostname is the lower-cased netloc after the last '@' and before the ':'
\* of the port; port is 0 for None
userinfoOf(netloc) == Partition(RPartitionAt(netloc)[1], {":"})
hostportOf(netloc) == Partition(RPartitionAt(netloc)[2], {":"})

urlparse(u) ==
    LET r == urlsplit(u)
    IN  [scheme   |-> r.scheme,
         hostname |-> Lower(hostportOf(r.netloc)[1]),
         port     |-> ToInt(hostportOf(r.netloc)[2], 0),
         username |-> userinfoOf(r.netloc)[1],
         password |-> userinfoOf(r.netloc)[2],
         path     |-> r.path,
         query    |-> r.query,
         fragment |-> r.fragment]

ISNICK == <<",", "i", "s", "n", "i", "c", "k">>
KEYEQ == <<"k", "e", "y", "=">>

\* Target.__init__ lines 696-699: the channel before the ",isnick" test
rawChannel(parsed) ==
    IF parsed.fragment # <<>>
    THEN Lower(LStripSlash(parsed.path)) \o <<"#">> \o parsed.fragment
    ELSE Lower(LStripSlash(parsed.path))

\* Target.__init__ lines 700-704
canonChannel(ch) ==
    IF EndsWith(ch, ISNICK) THEN Prefix(ch, Len(ch) - 7)
    ELSE IF ch # <<>> /\ ch[1] \notin {"#", "&", "+"} THEN <<"#">> \o ch
    ELSE ch

\* Target.__init__ lines 706-708: re.sub("^key=", "", parsed.query)
keyOf(query) == IF StartsWith(query, KEYEQ) THEN Suffix(query, 5) ELSE query

targetOf(u, parsed) ==
    [url        |-> u,
     ssl        |-> parsed.scheme = <<"i", "r", "c", "s">>,
     username   |-> parsed.username,
     password   |-> parsed.password,
     servername |-> parsed.hostname,
     port       |-> IF parsed.port # 0 THEN parsed.port
                    ELSE IF parsed.scheme = <<"i", "r", "c", "s">> THEN 6697
                    ELSE 6667,
     channel    |-> canonChannel(rawChannel(parsed)),
     key        |-> keyOf(parsed.query)]

\* Target.__init__
Target(u) == targetOf(u, urlparse(u))

\* Target.validate: TRUE when no InvalidRequest is raised
validate(t) == t.servername # <<>> /\ t.channel # <<>>

\* variant of Target.server: the port is left out of the key
server_by_name(t) == <<t.servername, 6667>>

\* Target.server
server(t) == <<t.servername, t.port>>


(***************************************************************************)
(* Part 2.  The relay: Irker, Dispatcher, Connection, IRCServerConnection, *)
(* IRCClient.                                                              *)
(***************************************************************************)

\* ---- program constants (src/irkerd.py:30-39) ----
XMIT_TTL == 10800
PING_TTL == 900
HANDSHAKE_TTL == 60
CHANNEL_TTL == 10800
DISCONNECT_TTL == 86400
UNSEEN_TTL == 60
CHANNEL_MAX == 18
\* CONNECTION_MAX is 200 in the source.  The code depends on it only through
\* the comparison len(self.servers) >= CONNECTION_MAX; the model gives it a
\* value that the modelled endpoints can reach.
CONNECTION_MAX == 3

\* ---- bounds of the model ----
MaxConns == 4       \* Connection objects ever created
MaxSC == 2          \* IRCServerConnection objects ever created
MaxReq == 3         \* request lines ever handled
MaxEvents == 3      \* lines ever received from servers
MaxTicks == 2       \* clock advances

Conns == 1 .. MaxConns
SCs == 1 .. MaxSC

VARIABLES
    now,        \* time.time()
    cfg,        \* what the daemon was started with: py3 (run by Python 3,
                \* else by Python 2), password (a NickServ password is given),
                \* nick_needs_number (the nick template holds a %d), logfile
    servers,    \* Irker.servers: endpoint -> Dispatcher
    conn,       \* the Connection objects, by identity
    nconn,      \* number of Connection objects created
    sconn,      \* the IRCServerConnection objects, by identity
    nsc,        \* number of IRCServerConnection objects created
    poll,       \* the poller thread (IRCClient.spin) and the handler it runs
    handleExc,  \* the exception that ended the last Irker.handle, "none" if none
    nreq,       \* request lines handled so far (numbers the messages)
    nev,        \* lines received from servers so far
    ticks,      \* clock advances so far
    url,        \* Part 1: the URL under test, as written
    tgt,        \* Part 1: Target(url), once computed
    lsn         \* the listener threads inside Connection.enqueue, when their
                \* calls of Irker.handle overlap

vars == <<now, cfg, servers, conn, nconn, sconn, nsc, poll,
          handleExc, nreq, nev, ticks, url, tgt, lsn>>

relayVars == <<now, cfg, servers, conn, nconn, sconn, nsc, poll,
               handleExc, nreq, nev, ticks, lsn>>

EmptyMap == [x \in {} |-> 0]

\* Connection.__init__ (thread: position of the consumer thread; item: the
\* local (channel, message, key) of Connection.dequeue; dispatcher: the
\* identity of the Dispatcher that created the Connection)
NoItem == [channel |-> <<>>, message |-> [id |-> 0, text |-> ""], key |-> <<>>]

\* the stream and the datagram listener threads (lines 1039-1044): pc is
\* "idle" outside Connection.enqueue, "start" before lines 514-517, "put"
\* before line 518; c and it are the Connection and the item of the call;
\* dequeuers counts the threads started on Connection.dequeue by them
Listeners == {"tcp", "udp"}

NoListeners ==
    [at        |-> [l \in Listeners |-> [pc |-> "idle", c |-> 0, it |-> NoItem]],
     dequeuers |-> [c \in Conns |-> 0]]

NewConnection(tg, t) ==
    [target          |-> tg,
     nick_trial      |-> 0,
     connection      |-> 0,
     status          |-> "none",
     last_xmit       |-> t,
     last_ping       |-> t,
     channels_joined |-> EmptyMap,
     channel_limits  |-> EmptyMap,
     queue           |-> <<>>,
     thread          |-> "none",
     item            |-> NoItem,
     dispatcher      |-> <<0, 0>>]

NoTarget == Target(<<>>)

\* IRCServerConnection.__init__ (wire: the lines sent on its socket;
\* welcomed: a welcome was received on it; kicked: the channels a KICK was
\* received for after the last JOIN sent for them)
NewServerConnection ==
    [socket   |-> "none",
     context  |-> 0,
     listed   |-> FALSE,
     ssl      |-> FALSE,
     wire     |-> <<>>,
     welcomed |-> FALSE,
     kicked   |-> {}]

\* q0, j0: the queue and channels_joined that handle_kick started from
PollIdle ==
    [pc |-> "idle", sc |-> 0, ev |-> "", arg |-> <<>>, qcopy |-> <<>>,
     q0 |-> <<>>, j0 |-> EmptyMap]

\* ---- Connection.live / joined_to / accepting ----
\* variant of live: an expired Connection still counts as live
live_always(cn) == TRUE

live(cn) == cn.status # "expired"

joined_to(cn, channel) == channel \in DOMAIN cn.channels_joined

accepting(cn, channel) ==
    IF DOMAIN cn.channel_limits # {}
    THEN LET match_count ==
                 Cardinality({already \in DOMAIN cn.channels_joined :
                                 already[1] = channel[1]})
             limit == IF channel[1] \in DOMAIN cn.channel_limits
                      THEN cn.channel_limits[channel[1]] ELSE CHANNEL_MAX
         IN  match_count < limit
    ELSE Cardinality(DOMAIN cn.channels_joined) < CHANNEL_MAX

\* a thread object exists and is_alive()
alive(cn) == cn.thread \notin {"none", "dead"}

\* variant of enqueue: the status is reset whether or not the thread runs
enqueue_resets(R, c, it) ==
    [R EXCEPT !.conn[c] = [R.conn[c] EXCEPT !.status = "unseen",
                                            !.thread = IF alive(R.conn[c])
                                                       THEN @ ELSE "top",
                                            !.queue = Append(@, it)]]

\* ---- Connection.enqueue, on the relay state R ----
enqueue(R, c, it) ==
    LET c0 == R.conn[c]
        c1 == IF alive(c0) THEN c0
              ELSE [c0 EXCEPT !.status = "unseen", !.thread = "top"]
    IN  [R EXCEPT !.conn[c] = [c1 EXCEPT !.queue = Append(@, it)]]

\* ---- Dispatcher.dispatch ----
\* The scavenging loop reads connections.channels_joined, an attribute of the
\* list: it raises AttributeError as soon as it runs for one live Connection.
\* exc = "bound" marks a run the model's pool of Connection objects cannot
\* represent.  skipped: the number of expired Connections that stood in the
\* list before the Connection that dispatch chose last.
dispatch(R, ep, it, t) ==
    LET all_        == R.servers[ep].connections
        connections == SelectSeq(all_, LAMBDA c : live(R.conn[c]))
        joined      == SelectSeq(connections,
                                 LAMBDA c : joined_to(R.conn[c], it.channel))
        accept      == SelectSeq(connections,
                                 LAMBDA c : accepting(R.conn[c], it.channel))
        eligibles   == IF joined # <<>> THEN joined ELSE accept
        before(c)   == {i \in DOMAIN all_ :
                           /\ \E j \in DOMAIN all_ : i < j /\ all_[j] = c
                           /\ R.conn[all_[i]].status = "expired"}
    IN  IF eligibles # <<>>
        THEN enqueue([R EXCEPT !.servers[ep].skipped =
                                   Cardinality(before(eligibles[1]))],
                     eligibles[1], it)
        ELSE IF connections # <<>> THEN [R EXCEPT !.exc = "AttributeError"]
        ELSE IF R.nconn >= MaxConns THEN [R EXCEPT !.exc = "bound"]
        ELSE LET n  == R.nconn + 1
                 R1 == [R EXCEPT !.nconn = n,
                                 !.conn[n] =
                                     [NewConnection(R.servers[ep].target, t)
                                        EXCEPT !.dispatcher = R.servers[ep].id],
                                 !.servers[ep].connections = Append(@, n),
                                 !.servers[ep].skipped = Len(all_)]
             IN  enqueue(R1, n, it)

\* ---- Dispatcher.live (filters self.connections) and Dispatcher.last_xmit ----
liveConnections(R, ep) ==
    SelectSeq(R.servers[ep].connections, LAMBDA c : live(R.conn[c]))

SeqRange(s) == {s[i] : i \in 1 .. Len(s)}

last_xmit(R, ep) ==
    LET xs == {R.conn[c].last_xmit : c \in SeqRange(R.servers[ep].connections)}
    IN  CHOOSE m \in xs : \A x \in xs : x <= m

RemoveKey(f, k) == [x \in DOMAIN f \ {k} |-> f[x]]

\* the element of a set of one element
Only(S) == CHOOSE x \in S : TRUE

\* min(self.servers.keys(), key=last_xmit): the first key, in iteration order,
\* whose Dispatcher has the least last_xmit
RECURSIVE oldestOf(_, _, _)
oldestOf(R, names, best) ==
    IF names = <<>> THEN best
    ELSE IF Head(names) \notin DOMAIN R.servers THEN oldestOf(R, Tail(names), best)
    ELSE IF best = <<>> \/ last_xmit(R, Head(names)) < last_xmit(R, best)
         THEN oldestOf(R, Tail(names), Head(names))
         ELSE oldestOf(R, Tail(names), best)

\* variant of evict: nothing is removed at the resource limit
evict_never(R, order) == R

\* lines 917-921: at the resource limit, remove the Dispatcher longest idle
evict(R, order) ==
    IF Cardinality(DOMAIN R.servers) >= CONNECTION_MAX
    THEN [R EXCEPT !.servers = RemoveKey(@, oldestOf(R, order, <<>>))]
    ELSE R

\* ---- the garbage-collection loop of Irker.handle (lines 902-921) ----
\* names: the keys of self.servers when the loop starts, in iteration order;
\* order: the iteration order of the dictionary.  Python 2 iterates a copy of
\* the keys and raises KeyError on a key the eviction removed; Python 3
\* iterates a view and raises RuntimeError once the dictionary changed size.
RECURSIVE gcLoop(_, _, _, _)
gcLoop(R, names, order, p3) ==
    IF names = <<>> THEN R
    ELSE LET servername == Head(names) IN
         IF servername \notin DOMAIN R.servers
         THEN [R EXCEPT !.exc = "KeyError"]
         ELSE LET lv == liveConnections(R, servername)
                  R1 == IF lv = <<>>
                        THEN [R EXCEPT !.servers = RemoveKey(@, servername)]
                        ELSE [R EXCEPT !.servers[servername].connections = lv]
                  R2 == evict(R1, order)
              IN  Only({IF p3 /\ DOMAIN Rn.servers # DOMAIN R.servers
                        THEN [Rn EXCEPT !.exc = "RuntimeError"]
                        ELSE gcLoop(Rn, Tail(names), order, p3) : Rn \in {R2}})

\* ---- a request line, by what json.loads makes of it ----
\* json: "garbage" (not JSON), "array" (JSON, but no object) or "object";
\* to, privmsg: the values under these keys, typed as json.loads types them
JString(s) == [type |-> "string", str |-> s]
JNumber == [type |-> "number", str |-> <<>>]

ToAbsent == [type |-> "absent", str |-> <<>>, list |-> <<>>]
ToNum == [type |-> "number", str |-> <<>>, list |-> <<>>]
ToStr(s) == [type |-> "string", str |-> s, list |-> <<>>]
ToSeq(l) == [type |-> "list", str |-> <<>>, list |-> l]

MsgAbsent == [type |-> "absent", text |-> ""]
MsgNumber == [type |-> "number", text |-> ""]
MsgString(t) == [type |-> "string", text |-> t]

JsonLine(json, to, privmsg) == [json |-> json, to |-> to, privmsg |-> privmsg]

NoLine == JsonLine("garbage", ToAbsent, MsgAbsent)

\* the line of a request with a list of URLs and a text
Request(urls, text) ==
    JsonLine("object", ToSeq([i \in DOMAIN urls |-> JString(urls[i])]),
             MsgString(text))

\* ---- Irker._parse_request, lines 876-888: the valid targets, in order ----
\* an entry that is no string, or whose Target does not validate, raises
\* InvalidRequest inside the loop, where it is logged and the entry skipped
RECURSIVE parseTargets(_)
parseTargets(urls) ==
    IF urls = <<>> THEN <<>>
    ELSE IF Head(urls).type # "string" THEN parseTargets(Tail(urls))
    ELSE LET target == Target(Head(urls).str) IN
         IF validate(target) THEN <<target>> \o parseTargets(Tail(urls))
         ELSE parseTargets(Tail(urls))

Parsed(exc, targets, message) ==
    [exc |-> exc, targets |-> targets, message |-> message]

\* variant of parse_request: a request without 'privmsg', or with one that
\* is no string, is taken as a request with an empty text
parse_request_lenient(line) ==
    IF line.json = "garbage" THEN Parsed("ValueError", <<>>, "")
    ELSE IF line.json # "object" THEN Parsed("InvalidRequest", <<>>, "")
    ELSE IF line.to.type \notin {"list", "string"}
         THEN Parsed("InvalidRequest", <<>>, "")
    ELSE Parsed("none",
                parseTargets(IF line.to.type = "list" THEN line.to.list
                             ELSE <<JString(line.to.str)>>),
                line.privmsg.text)

\* ---- Irker._parse_request ----
\* exc: "ValueError" from json.loads, "InvalidRequest" from the checks of
\* lines 861-873, "none" when (targets, message) is returned
parse_request(line) ==
    IF line.json = "garbage" THEN Parsed("ValueError", <<>>, "")
    ELSE IF line.json # "object" THEN Parsed("InvalidRequest", <<>>, "")
    ELSE IF line.to.type = "absent" \/ line.privmsg.type = "absent"
         THEN Parsed("InvalidRequest", <<>>, "")
    ELSE IF line.to.type \notin {"list", "string"}
         THEN Parsed("InvalidRequest", <<>>, "")
    ELSE IF line.privmsg.type # "string"
         THEN Parsed("InvalidRequest", <<>>, "")
    ELSE Parsed("none",
                parseTargets(IF line.to.type = "list" THEN line.to.list
                             ELSE <<JString(line.to.str)>>),
                line.privmsg.text)

\* ---- what Dispatcher.dispatch finds for a channel (lines 742-755) ----
\* a live Connection has joined a channel longer ago than CHANNEL_TTL
ancient(R, ep, t) ==
    \E c \in SeqRange(liveConnections(R, ep)) :
        \E ch \in DOMAIN R.conn[c].channels_joined :
            R.conn[c].channels_joined[ch] < t - CHANNEL_TTL

\* all live Connections are at their channel limit and none can be scavenged
overflow(R, ep, channel, t) ==
    /\ liveConnections(R, ep) # <<>>
    /\ \A c \in SeqRange(liveConnections(R, ep)) :
           /\ ~joined_to(R.conn[c], channel)
           /\ ~accepting(R.conn[c], channel)
    /\ ~ancient(R, ep, t)

\* ---- one pass of the loop of Irker.handle (lines 895-921) ----
handleTarget(R, target, message, order, p3, t) ==
    LET ep == server(target)
        R1 == IF ep \in DOMAIN R.servers THEN R
              ELSE [R EXCEPT !.servers =
                       [k \in DOMAIN R.servers \cup {ep} |->
                           IF k = ep
                           THEN [connections |-> <<>>, target |-> target,
                                 id |-> <<message.id, R.made + 1>>,
                                 skipped |-> 0]
                           ELSE R.servers[k]]]
        it == [channel |-> target.channel, message |-> message,
               key |-> target.key]
    IN  Only({IF R2.exc # "none" THEN R2
              ELSE gcLoop(R2,
                          SelectSeq(order, LAMBDA k : k \in DOMAIN R2.servers),
                          order, p3) :
                 R2 \in {dispatch([R1 EXCEPT !.made = @ + 1], ep, it, t)}})

\* ---- the loop over the targets in Irker.handle (lines 895-921) ----
RECURSIVE handleLoop(_, _, _, _, _, _)
handleLoop(R, targets, message, order, p3, t) ==
    IF targets = <<>> \/ R.exc # "none" THEN R
    ELSE Only({handleLoop(R3, Tail(targets), message, order, p3, t) :
                  R3 \in {handleTarget(R, Head(targets), message, order, p3, t)}})

\* ---- Irker.handle, lines 893-921: from the parsed request P to the
\* servers and Connections it leaves, and the exception that ended it ----
handleResult(P, order) ==
    LET R0 == [servers |-> servers, conn |-> conn, nconn |-> nconn,
               exc |-> "none", made |-> 0]
    IN  IF P.exc # "none" THEN [R0 EXCEPT !.exc = P.exc]
        ELSE handleLoop(R0, P.targets, [id |-> nreq + 1, text |-> P.message],
                        order, cfg.py3, now)

\* ---- Irker.handle(line), quit_after=False ----
\* line: the request line; order: the iteration order of self.servers.
\* InvalidRequest, ValueError and RuntimeError are caught and logged (lines
\* 922-927); any other exception leaves handle.
HandleLine(line, order) ==
    /\ nreq < MaxReq
    /\ \E P \in {parse_request(line)} :
       \E R \in {handleResult(P, order)} :
           /\ R.exc # "bound"
           /\ servers' = R.servers
           /\ conn' = R.conn
           /\ nconn' = R.nconn
           /\ handleExc' = R.exc
    /\ nreq' = nreq + 1
    /\ UNCHANGED <<now, cfg, sconn, nsc, poll, nev, ticks, url, tgt, lsn>>

\* a request with a list of URLs, all strings, and a text
Handle(urls, text, order) == HandleLine(Request(urls, text), order)

\* ---- Irker.handle on the listener thread l, when the calls of the two
\* listener threads overlap.  ListenerChoose: handle up to the test of line
\* 513 in Connection.enqueue, for a request with one URL: dispatch has chosen
\* or created the Connection c; the garbage collection of lines 901-921 is
\* taken here. ----
ListenerChoose(l, urls, text, order) ==
    /\ lsn.at[l].pc = "idle"
    /\ nreq < MaxReq
    /\ \E R \in {handleResult(parse_request(Request(urls, text)), order)} :
       \E c \in Conns :
           /\ R.exc = "none"
           /\ c <= R.nconn
           /\ {d \in Conns : R.conn[d].queue # conn[d].queue} = {c}
           /\ servers' = R.servers
           /\ nconn' = R.nconn
           /\ handleExc' = R.exc
           /\ conn' = [R.conn EXCEPT ![c] =
                          IF c <= nconn THEN conn[c]
                          ELSE [@ EXCEPT !.status = "none", !.thread = "none",
                                         !.queue = <<>>]]
           /\ lsn' = [lsn EXCEPT !.at[l] =
                          [pc |-> IF c <= nconn /\ alive(conn[c])
                                  THEN "put" ELSE "start",
                           c  |-> c,
                           it |-> R.conn[c].queue[Len(R.conn[c].queue)]]]
    /\ nreq' = nreq + 1
    /\ UNCHANGED <<now, cfg, sconn, nsc, poll, nev, ticks, url, tgt>>

\* lines 514-517: status = "unseen", a new thread is started on dequeue
ListenerStart(l) ==
    /\ lsn.at[l].pc = "start"
    /\ \E c \in {lsn.at[l].c} :
           /\ conn' = [conn EXCEPT ![c].status = "unseen", ![c].thread = "top"]
           /\ lsn' = [lsn EXCEPT !.at[l].pc = "put", !.dequeuers[c] = @ + 1]
    /\ UNCHANGED <<now, cfg, servers, nconn, sconn, nsc, poll, handleExc,
                   nreq, nev, ticks, url, tgt>>

\* line 518: self.queue.put
ListenerPut(l) ==
    /\ lsn.at[l].pc = "put"
    /\ conn' = [conn EXCEPT ![lsn.at[l].c].queue = Append(@, lsn.at[l].it)]
    /\ lsn' = [lsn EXCEPT !.at[l] = NoListeners.at[l]]
    /\ UNCHANGED <<now, cfg, servers, nconn, sconn, nsc, poll, handleExc,
                   nreq, nev, ticks, url, tgt>>

\* ---- the clock ----
Tick(d) ==
    /\ ticks < MaxTicks
    /\ now' = now + d
    /\ ticks' = ticks + 1
    /\ UNCHANGED <<cfg, servers, conn, nconn, sconn, nsc, poll,
                   handleExc, nreq, nev, url, tgt, lsn>>


(***************************************************************************)
(* IRCServerConnection: ship, disconnect, close.  S is the pair of the     *)
(* Connection objects and the IRCServerConnection objects.                 *)
(***************************************************************************)

\* a line on the wire: by is the thread that wrote it (<<"consumer", c>>: the
\* consumer thread of Connection c; <<"poller", 0>>: the poller thread), st
\* the status of the owning Connection when it was written
Line(kind, arg, by, st) == [kind |-> kind, arg |-> arg, by |-> by, st |-> st]

\* variant of handle_disconnect: the status is set whatever it was
handle_disconnect_any(S, c) ==
    [S EXCEPT !.conn[c].connection = 0, !.conn[c].status = "disconnected"]

\* Connection.handle_disconnect
handle_disconnect(S, c) ==
    [S EXCEPT !.conn[c].connection = 0,
              !.conn[c].status = IF @ = "expired" THEN @ ELSE "disconnected"]

\* IRCServerConnection.disconnect: closes the socket and raises the
\* disconnect event, whose handler Irker._handle_disconnect closes the
\* object (drop_connection) and tells the context
disconnect(S, sc) ==
    IF S.sconn[sc].socket = "none" THEN S
    ELSE LET S1 == [S EXCEPT !.sconn[sc].socket = "none",
                             !.sconn[sc].listed = FALSE]
         IN  IF S1.sconn[sc].context # 0
             THEN handle_disconnect(S1, S1.sconn[sc].context)
             ELSE S1

\* IRCServerConnection.close (the ValueError that drop_connection raises for
\* an object already dropped is swallowed by every caller)
close(S, sc) ==
    LET S1 == disconnect(S, sc)
    IN  [S1 EXCEPT !.sconn[sc].listed = FALSE]

\* IRCServerConnection.ship on an open socket: ok = the send succeeds
ship(S, sc, line, ok) ==
    IF ok THEN [S EXCEPT !.sconn[sc].wire = Append(@, line),
                         !.sconn[sc].kicked = IF line.kind = "JOIN"
                                              THEN @ \ {line.arg[1]} ELSE @]
    ELSE disconnect(S, sc)

\* the IRC client mutex is free: the poller holds it from select to the end
\* of the handlers it runs
MutexFree == poll.pc \in {"idle", "dead"}

canShip(S, sc) == sc # 0 /\ S.sconn[sc].socket # "none"

(***************************************************************************)
(* Connection.dequeue: the consumer thread of Connection c.                *)
(* thread = "top": at the head of the while loop; "get": at queue.get();   *)
(* "join", "privmsg", "mark": lines 610, 614-636, 637; "closing": in the   *)
(* finally clause; "dead": returned.                                       *)
(***************************************************************************)

\* variant of expire: the thread ends and leaves the status as it is
expire_keeps_status(S, c) == [S EXCEPT !.conn[c].thread = "closing"]

\* except Exception: status = "expired", then the finally clause
expire(S, c) ==
    [S EXCEPT !.conn[c].status = "expired", !.conn[c].thread = "closing"]

Commit(S) == conn' = S.conn /\ sconn' = S.sconn

Here == [conn |-> conn, sconn |-> sconn]

\* variant of ConsumerExpire: the handshake times out as soon as
\* HANDSHAKE_TTL is reached
ConsumerExpireAtTtl(c) ==
    /\ c <= nconn
    /\ conn[c].thread = "top"
    /\ conn[c].queue # <<>>
    /\ conn[c].connection # 0
    /\ conn[c].status = "handshaking"
    /\ now >= conn[c].last_xmit + HANDSHAKE_TTL
    /\ Commit(expire(Here, c))
    /\ UNCHANGED <<now, cfg, servers, nconn, nsc, poll, handleExc,
                   nreq, nev, ticks, url, tgt, lsn>>

\* lines 531-541, 560-566, 591-594, 599-607, 641-644: the branches that end
\* the thread
ConsumerExpire(c) ==
    /\ c <= nconn
    /\ conn[c].thread = "top"
    /\ LET cn == conn[c] IN
       \/ cn.queue = <<>> /\ cn.status = "disconnected"
       \/ /\ cn.queue # <<>>
          /\ \/ cn.status = "disconnected" /\ now > cn.last_xmit + DISCONNECT_TTL
             \/ /\ ~(cn.status = "disconnected" /\ now > cn.last_xmit + DISCONNECT_TTL)
                /\ ~(cn.connection = 0 /\ cn.status # "expired")
                /\ \/ cn.status = "handshaking" /\ now > cn.last_xmit + HANDSHAKE_TTL
                   \/ cn.status = "unseen" /\ now > cn.last_xmit + UNSEEN_TTL
                   \/ cn.status = "expired"
    /\ Commit(expire(Here, c))
    /\ UNCHANGED <<now, cfg, servers, nconn, nsc, poll, handleExc,
                   nreq, nev, ticks, url, tgt, lsn>>

\* variant of transmission_timeout: the thread ends with status "expired"
transmission_timeout_expires(S, c, ok) ==
    LET sc == S.conn[c].connection IN
    IF sc = 0 THEN expire(S, c)
    ELSE LET S1 == [S EXCEPT !.sconn[sc].context = 0] IN
         IF ~canShip(S1, sc) THEN expire(S1, c)
         ELSE LET line == Line("QUIT", "transmission timeout",
                               <<"consumer", c>>, S.conn[c].status)
                  S2 == ship(S1, sc, line, ok)
              IN  expire([S2 EXCEPT !.conn[c].connection = 0], c)

\* lines 548-552: drop the server connection, status "disconnected".
\* AttributeError (no server connection, or its socket is None) ends the
\* thread; ok = the send of QUIT succeeds
transmission_timeout(S, c, ok) ==
    LET sc == S.conn[c].connection IN
    IF sc = 0 THEN expire(S, c)
    ELSE LET S1 == [S EXCEPT !.sconn[sc].context = 0] IN
         IF ~canShip(S1, sc) THEN expire(S1, c)
         ELSE LET line == Line("QUIT", "transmission timeout",
                               <<"consumer", c>>, S.conn[c].status)
                  S2 == ship(S1, sc, line, ok)
              IN  [S2 EXCEPT !.conn[c].connection = 0,
                             !.conn[c].status = "disconnected"]

\* lines 542-552: the queue is empty and a timeout has passed
ConsumerIdleTimeout(c, ok) ==
    /\ c <= nconn
    /\ conn[c].thread = "top"
    /\ conn[c].queue = <<>>
    /\ conn[c].status # "disconnected"
    /\ \/ now > conn[c].last_xmit + XMIT_TTL
       \/ now > conn[c].last_ping + PING_TTL
    /\ MutexFree
    /\ ok \/ canShip(Here, conn[c].connection)
    /\ Commit(transmission_timeout(Here, c, ok))
    /\ UNCHANGED <<now, cfg, servers, nconn, nsc, poll, handleExc,
                   nreq, nev, ticks, url, tgt, lsn>>

\* random.randint(1, 990): the values the model draws
NickSeeds == {1}

\* lines 567-590: the queue is nonempty and there is no server connection.
\* how = "ok": connected, NICK and USER sent; "fail": IRCServerConnectionError
\* (the socket object exists, unconnected: all the poller can read from it is
\* an error); "certfail": connected, _check_hostname raises
\* IRCServerConnectionError (ssl.match_hostname, Python 3); "nickfail",
\* "userfail": the send of NICK or of USER fails
ConsumerConnect(c, how, seed) ==
    /\ c <= nconn
    /\ conn[c].thread = "top"
    /\ conn[c].queue # <<>>
    /\ ~(conn[c].status = "disconnected" /\ now > conn[c].last_xmit + DISCONNECT_TTL)
    /\ conn[c].connection = 0
    /\ conn[c].status # "expired"
    /\ how = "certfail" => conn[c].target.ssl /\ cfg.py3
    /\ MutexFree
    /\ nsc < MaxSC
    /\ nsc' = nsc + 1
    /\ LET sc == nsc + 1
           tg == conn[c].target
           by == <<"consumer", c>>
           S1 == [conn  |-> [conn EXCEPT ![c].connection = sc,
                                         ![c].nick_trial = seed,
                                         ![c].channels_joined = EmptyMap],
                  sconn |-> [sconn EXCEPT ![sc] =
                                [NewServerConnection EXCEPT
                                    !.listed = TRUE, !.context = c,
                                    !.socket = "open", !.ssl = tg.ssl]]]
           st == conn[c].status
           pass == IF tg.password # <<>>
                   THEN ship(S1, sc, Line("PASS", tg.password, by, st), TRUE)
                   ELSE S1
           nick == ship(pass, sc, Line("NICK", seed, by, st), how # "nickfail")
           user == ship(nick, sc, Line("USER", "irker", by, st), how # "userfail")
           shake(S) == [S EXCEPT !.conn[c].status = "handshaking",
                                 !.conn[c].last_xmit = now,
                                 !.conn[c].last_ping = now]
       IN  CASE how = "fail"     ->
                    Commit(expire([S1 EXCEPT !.sconn[sc].socket = "unconnected"],
                                  c))
             [] how = "certfail" -> Commit(expire(S1, c))
             [] how = "nickfail" -> Commit(expire(nick, c))
             [] how = "userfail" -> Commit(shake(user))
             [] OTHER            -> Commit(shake(user))
    /\ UNCHANGED <<now, cfg, servers, nconn, poll, handleExc,
                   nreq, nev, ticks, url, tgt, lsn>>

\* variant of ConsumerReady: the consumer does not wait for "ready"
ConsumerReadyEarly(c) ==
    /\ c <= nconn
    /\ conn[c].thread = "top"
    /\ conn[c].queue # <<>>
    /\ conn[c].connection # 0
    /\ conn[c].status \in {"ready", "handshaking"}
    /\ conn' = [conn EXCEPT ![c].thread = "get"]
    /\ UNCHANGED <<now, cfg, servers, nconn, sconn, nsc, poll,
                   handleExc, nreq, nev, ticks, url, tgt, lsn>>

\* line 608: status is "ready", go on to queue.get()
ConsumerReady(c) ==
    /\ c <= nconn
    /\ conn[c].thread = "top"
    /\ conn[c].queue # <<>>
    /\ conn[c].connection # 0
    /\ conn[c].status = "ready"
    /\ conn' = [conn EXCEPT ![c].thread = "get"]
    /\ UNCHANGED <<now, cfg, servers, nconn, sconn, nsc, poll,
                   handleExc, nreq, nev, ticks, url, tgt, lsn>>

\* line 609: queue.get() blocks while the queue is empty
ConsumerGet(c) ==
    /\ c <= nconn
    /\ conn[c].thread = "get"
    /\ conn[c].queue # <<>>
    /\ conn' = [conn EXCEPT ![c].item = Head(conn[c].queue),
                            ![c].queue = Tail(@),
                            ![c].thread = "join"]
    /\ UNCHANGED <<now, cfg, servers, nconn, sconn, nsc, poll,
                   handleExc, nreq, nev, ticks, url, tgt, lsn>>

\* a send by the consumer thread of c on its current server connection:
\* AttributeError when self.connection is None or its socket is None
consumerShip(c, kind, arg, ok, nextpc) ==
    LET sc == conn[c].connection IN
    IF ~canShip(Here, sc) THEN expire(Here, c)
    ELSE LET line == Line(kind, arg, <<"consumer", c>>, conn[c].status)
             S1 == ship(Here, sc, line, ok)
         IN  [S1 EXCEPT !.conn[c].thread = nextpc]

\* lines 610-612: JOIN unless the channel is in channels_joined
ConsumerJoin(c, ok) ==
    /\ c <= nconn
    /\ conn[c].thread = "join"
    /\ ok \/ MutexFree
    /\ LET it == conn[c].item IN
       IF it.channel \in DOMAIN conn[c].channels_joined
       THEN /\ ok
            /\ conn' = [conn EXCEPT ![c].thread = "privmsg"]
            /\ UNCHANGED sconn
       ELSE /\ ok \/ canShip(Here, conn[c].connection)
            /\ Commit(consumerShip(c, "JOIN", <<it.channel, it.key>>, ok, "privmsg"))
    /\ UNCHANGED <<now, cfg, servers, nconn, nsc, poll, handleExc,
                   nreq, nev, ticks, url, tgt, lsn>>

\* lines 613-636: PRIVMSG unless the message is empty
ConsumerPrivmsg(c, ok) ==
    /\ c <= nconn
    /\ conn[c].thread = "privmsg"
    /\ ok \/ MutexFree
    /\ LET it == conn[c].item IN
       IF it.message.text = ""
       THEN /\ ok
            /\ conn' = [conn EXCEPT ![c].thread = "mark"]
            /\ UNCHANGED sconn
       ELSE /\ ok \/ canShip(Here, conn[c].connection)
            /\ Commit(consumerShip(c, "PRIVMSG", <<it.channel, it.message.id>>,
                                   ok, "mark"))
    /\ UNCHANGED <<now, cfg, servers, nconn, nsc, poll, handleExc,
                   nreq, nev, ticks, url, tgt, lsn>>

\* a send of the consumer thread of c fails while the poller holds the mutex:
\* ship (lines 425-428) calls disconnect, which closes the socket and sets
\* self.socket = None (lines 387-393) and then waits for the mutex in
\* handle_event.  thread = "wait_privmsg", "wait_mark": waiting there, to go
\* on at line 613 or 637.
ConsumerShipBreaks(c) ==
    /\ c <= nconn
    /\ ~MutexFree
    /\ canShip(Here, conn[c].connection)
    /\ \/ /\ conn[c].thread = "join"
          /\ conn[c].item.channel \notin DOMAIN conn[c].channels_joined
          /\ conn' = [conn EXCEPT ![c].thread = "wait_privmsg"]
       \/ /\ conn[c].thread = "privmsg"
          /\ conn[c].item.message.text # ""
          /\ conn' = [conn EXCEPT ![c].thread = "wait_mark"]
    /\ sconn' = [sconn EXCEPT ![conn[c].connection].socket = "none"]
    /\ UNCHANGED <<now, cfg, servers, nconn, nsc, poll, handleExc,
                   nreq, nev, ticks, url, tgt, lsn>>

\* the mutex is free: the disconnect event is handled (lines 832-837: close,
\* which drops the server connection from the list, and handle_disconnect)
\* and the consumer goes on after the send
ConsumerShipResumes(c) ==
    /\ c <= nconn
    /\ conn[c].thread \in {"wait_privmsg", "wait_mark"}
    /\ MutexFree
    /\ LET sc == conn[c].connection
           S1 == [Here EXCEPT !.sconn[sc].listed = FALSE]
           S2 == IF S1.sconn[sc].context # 0
                 THEN handle_disconnect(S1, S1.sconn[sc].context) ELSE S1
       IN  Commit([S2 EXCEPT !.conn[c].thread =
                       IF conn[c].thread = "wait_privmsg" THEN "privmsg" ELSE "mark"])
    /\ UNCHANGED <<now, cfg, servers, nconn, nsc, poll, handleExc,
                   nreq, nev, ticks, url, tgt, lsn>>

MapPut(f, k, v) == [x \in DOMAIN f \cup {k} |-> IF x = k THEN v ELSE f[x]]

\* line 637-640: self.last_xmit = self.channels_joined[channel] = time.time()
ConsumerMark(c) ==
    /\ c <= nconn
    /\ conn[c].thread = "mark"
    /\ conn' = [conn EXCEPT ![c].last_xmit = now,
                            ![c].channels_joined =
                                MapPut(@, conn[c].item.channel, now),
                            ![c].thread = "top"]
    /\ UNCHANGED <<now, cfg, servers, nconn, sconn, nsc, poll,
                   handleExc, nreq, nev, ticks, url, tgt, lsn>>

\* lines 650-656: finally: self.connection.close(), any exception ignored
ConsumerClose(c) ==
    /\ c <= nconn
    /\ conn[c].thread = "closing"
    /\ LET sc == conn[c].connection IN
       IF sc = 0 THEN Commit([Here EXCEPT !.conn[c].thread = "dead"])
       ELSE /\ MutexFree
            /\ Commit([close(Here, sc) EXCEPT !.conn[c].thread = "dead"])
    /\ UNCHANGED <<now, cfg, servers, nconn, nsc, poll, handleExc,
                   nreq, nev, ticks, url, tgt, lsn>>



(***************************************************************************)
(* IRCClient.spin: the poller thread.  poll.pc = "idle": outside the       *)
(* mutex; "event": a line was received on poll.sc and its event (poll.ev,  *)
(* poll.arg) is about to be handled; "kick_chk", "kick_get", "kick_put":   *)
(* inside Connection.handle_kick; "dead": an exception left spin.          *)
(***************************************************************************)

\* lines 166-175 and IRCServerConnection.consume up to the event raised for
\* one received line; ev = "eof" is a recv error or an empty read
PollRecv(sc, ev, arg) ==
    /\ poll.pc = "idle"
    /\ nev < MaxEvents
    /\ sc <= nsc
    /\ sconn[sc].listed
    /\ sconn[sc].socket # "none"
    /\ sconn[sc].socket = "unconnected" => ev = "eof"
    /\ poll' = [PollIdle EXCEPT !.pc = "event", !.sc = sc, !.ev = ev, !.arg = arg]
    /\ sconn' = [sconn EXCEPT
                   ![sc].welcomed = @ \/ ev = "welcome",
                   ![sc].kicked = IF ev = "kick" THEN @ \cup {arg} ELSE @]
    /\ nev' = nev + 1
    /\ UNCHANGED <<now, cfg, servers, conn, nconn, nsc, handleExc,
                   nreq, ticks, url, tgt, lsn>>

PollFrame == UNCHANGED <<now, cfg, servers, nconn, nsc, handleExc,
                         nreq, nev, ticks, url, tgt, lsn>>

ctxOf(sc) == sconn[sc].context

\* a send by a handler that the poller runs
pollerShip(S, sc, kind, arg, ok) ==
    ship(S, sc, Line(kind, arg, <<"poller", 0>>,
                     IF S.sconn[sc].context = 0 THEN "none"
                     ELSE S.conn[S.sconn[sc].context].status), ok)

\* variant of HandleEof: disconnect sends a QUIT before it closes the socket
HandleEofQuit ==
    /\ poll.pc = "event" /\ poll.ev = "eof"
    /\ Commit(disconnect(pollerShip(Here, poll.sc, "QUIT", "", TRUE), poll.sc))
    /\ poll' = PollIdle
    /\ PollFrame

\* lines 317-324: the socket is dead, IRCServerConnection.disconnect
HandleEof ==
    /\ poll.pc = "event" /\ poll.ev = "eof"
    /\ Commit(disconnect(Here, poll.sc))
    /\ poll' = PollIdle
    /\ PollFrame

\* the handlers of "ping": the lambda of IRCClient.__init__ (PONG) and
\* Irker._handle_ping.  IRCClient.handle_event sorts the handlers; Python 3
\* cannot order two functions and raises TypeError before any of them runs.
HandlePing(ok) ==
    /\ poll.pc = "event" /\ poll.ev = "ping"
    /\ IF cfg.py3
       THEN /\ ok
            /\ poll' = [PollIdle EXCEPT !.pc = "dead"]
            /\ UNCHANGED <<conn, sconn>>
       ELSE /\ LET sc == poll.sc
                   S1 == pollerShip(Here, sc, "PONG", poll.arg, ok)
                   c  == S1.sconn[sc].context
               IN  IF c = 0 THEN Commit(S1)
                   ELSE Commit([S1 EXCEPT !.conn[c].last_ping = now])
            /\ poll' = PollIdle
    /\ PollFrame

NICKSERV == <<"n", "i", "c", "k", "s", "e", "r", "v">>

\* Irker._handle_welcome, Connection.handle_welcome
HandleWelcome(ok) ==
    /\ poll.pc = "event" /\ poll.ev = "welcome"
    /\ LET c == ctxOf(poll.sc) IN
       IF c = 0 \/ ~cfg.password
       THEN /\ ok
            /\ conn' = IF c = 0 THEN conn ELSE [conn EXCEPT ![c].status = "ready"]
            /\ poll' = PollIdle
            /\ UNCHANGED sconn
       ELSE LET S1 == [Here EXCEPT !.conn[c].status = "ready"]
                sc == conn[c].connection
            IN  IF ~canShip(S1, sc)
                THEN /\ ok
                     /\ Commit(S1)
                     /\ poll' = [PollIdle EXCEPT !.pc = "dead"]
                ELSE /\ Commit(pollerShip(S1, sc, "PRIVMSG", <<NICKSERV, 0>>, ok))
                     /\ poll' = PollIdle
    /\ PollFrame

\* variant of HandleBadnick: the rejected nickname is sent again
HandleBadnickSame(d, ok) ==
    /\ poll.pc = "event" /\ poll.ev = "badnick"
    /\ ok /\ d = 1
    /\ ctxOf(poll.sc) # 0
    /\ canShip(Here, conn[ctxOf(poll.sc)].connection)
    /\ Commit(pollerShip(Here, conn[ctxOf(poll.sc)].connection, "NICK",
                         conn[ctxOf(poll.sc)].nick_trial, ok))
    /\ poll' = PollIdle
    /\ PollFrame

\* Irker._handle_badnick, Connection.handle_badnick; d = random.randint(1, 3)
HandleBadnick(d, ok) ==
    /\ poll.pc = "event" /\ poll.ev = "badnick"
    /\ LET c == ctxOf(poll.sc) IN
       IF c = 0 \/ ~cfg.nick_needs_number
       THEN /\ ok /\ d = 1
            /\ poll' = PollIdle
            /\ UNCHANGED <<conn, sconn>>
       ELSE LET S1 == [Here EXCEPT !.conn[c].nick_trial = @ + d,
                                   !.conn[c].last_xmit = now]
                sc == conn[c].connection
            IN  IF ~canShip(S1, sc)
                THEN /\ ok
                     /\ Commit(S1)
                     /\ poll' = [PollIdle EXCEPT !.pc = "dead"]
                ELSE /\ Commit(pollerShip(S1, sc, "NICK",
                                          S1.conn[c].nick_trial, ok))
                     /\ poll' = PollIdle
    /\ PollFrame

Digits == {"0", "1", "2", "3", "4", "5", "6", "7", "8", "9"}

\* int(s) does not raise ValueError
IsInt(s) == s # <<>> /\ \A i \in 1 .. Len(s) : s[i] \in Digits

\* str.split(sep)
RECURSIVE Split(_, _)
Split(s, sep) ==
    LET i == FindFirst(s, {sep}, 1)
    IN  IF i = 0 THEN <<s>>
        ELSE <<Prefix(s, i - 1)>> \o Split(Suffix(s, i + 1), sep)

DEAF == <<"D", "E", "A", "F", "=">>
MAXCHANNELS == <<"M", "A", "X", "C", "H", "A", "N", "N", "E", "L", "S", "=">>
CHANLIMIT == <<"C", "H", "A", "N", "L", "I", "M", "I", "T", "=", "#", ":">>

\* for c in prefixes: channel_limits[c] = limit
RECURSIVE setLimits(_, _, _)
setLimits(limits, prefixes, n) ==
    IF prefixes = <<>> THEN limits
    ELSE setLimits(MapPut(limits, Head(prefixes), n), Tail(prefixes), n)

\* lines 823-827: the tokens of a CHANLIMIT lump, up to the first ValueError
RECURSIVE chanlimitTokens(_, _)
chanlimitTokens(limits, tokens) ==
    IF tokens = <<>> THEN limits
    ELSE LET parts == Split(Head(tokens), ":") IN
         IF Len(parts) # 2 \/ ~IsInt(parts[2]) THEN limits
         ELSE chanlimitTokens(setLimits(limits, parts[1], ToInt(parts[2], 0)),
                              Tail(tokens))

\* variant of features: CHANLIMIT is read whatever its first prefix group is
RECURSIVE features_any(_, _, _, _, _)
features_any(F, sc, c, lumps, ok) ==
    IF lumps = <<>> \/ F.exc THEN F
    ELSE LET lump == Head(lumps)
             F1 ==
               IF StartsWith(lump, MAXCHANNELS)
               THEN IF ~IsInt(Suffix(lump, 13)) THEN [F EXCEPT !.exc = TRUE]
                    ELSE [F EXCEPT !.S.conn[c].channel_limits =
                             setLimits(@, <<"#", "&", "+">>,
                                       ToInt(Suffix(lump, 13), 0))]
               ELSE IF StartsWith(lump, SubSeq(CHANLIMIT, 1, 10))
               THEN [F EXCEPT !.S.conn[c].channel_limits =
                        chanlimitTokens(@, Split(Suffix(lump, 11), ","))]
               ELSE F
         IN  features_any(F1, sc, c, Tail(lumps), ok)

\* Irker._handle_features for the Connection c that is the context of sc.
\* F = [S, exc]: exc is set when an exception leaves the handler (int() of a
\* MAXCHANNELS value that is no number, or a send on a socket that is None)
RECURSIVE features(_, _, _, _, _)
features(F, sc, c, lumps, ok) ==
    IF lumps = <<>> \/ F.exc THEN F
    ELSE LET lump == Head(lumps)
             S == F.S
             F1 ==
               IF StartsWith(lump, DEAF)
               THEN IF cfg.logfile THEN F
                    ELSE IF ~canShip(S, sc) THEN [F EXCEPT !.exc = TRUE]
                    ELSE [F EXCEPT !.S = pollerShip(S, sc, "MODE",
                                                    Suffix(lump, 6), ok)]
               ELSE IF StartsWith(lump, MAXCHANNELS)
               THEN IF ~IsInt(Suffix(lump, 13)) THEN [F EXCEPT !.exc = TRUE]
                    ELSE [F EXCEPT !.S.conn[c].channel_limits =
                             setLimits(@, <<"#", "&", "+">>,
                                       ToInt(Suffix(lump, 13), 0))]
               ELSE IF StartsWith(lump, CHANLIMIT)
               THEN [F EXCEPT !.S.conn[c].channel_limits =
                        chanlimitTokens(@, Split(Suffix(lump, 11), ","))]
               ELSE F
         IN  features(F1, sc, c, Tail(lumps), ok)

hasDeaf(lumps) == \E i \in 1 .. Len(lumps) : StartsWith(lumps[i], DEAF)

HandleFeatures(ok) ==
    /\ poll.pc = "event" /\ poll.ev = "featurelist"
    /\ LET c == ctxOf(poll.sc) IN
       IF c = 0
       THEN /\ ok
            /\ poll' = PollIdle
            /\ UNCHANGED <<conn, sconn>>
       ELSE LET F == features([S |-> Here, exc |-> FALSE], poll.sc, c,
                              poll.arg, ok)
            IN  /\ ok \/ (hasDeaf(poll.arg) /\ ~cfg.logfile)
                /\ Commit(F.S)
                /\ poll' = IF F.exc THEN [PollIdle EXCEPT !.pc = "dead"]
                           ELSE PollIdle
    /\ PollFrame

\* Irker._handle_kick, Connection.handle_kick lines 497-503
KickStart ==
    /\ poll.pc = "event" /\ poll.ev = "kick"
    /\ LET c == ctxOf(poll.sc) IN
       IF c = 0
       THEN /\ poll' = PollIdle
            /\ UNCHANGED conn
       ELSE /\ conn' = [conn EXCEPT ![c].status = "handshaking",
                                    ![c].channels_joined = RemoveKey(@, poll.arg)]
            /\ poll' = [poll EXCEPT !.pc = "kick_chk",
                                    !.q0 = conn[c].queue,
                                    !.j0 = conn[c].channels_joined]
    /\ UNCHANGED sconn
    /\ PollFrame

\* line 504: while not self.queue.empty()
KickChk ==
    /\ poll.pc = "kick_chk"
    /\ poll' = [poll EXCEPT !.pc = IF conn[ctxOf(poll.sc)].queue = <<>>
                                   THEN "kick_put" ELSE "kick_get"]
    /\ UNCHANGED <<conn, sconn>>
    /\ PollFrame

\* lines 505-507: queue.get() blocks while the queue is empty
KickGet ==
    /\ poll.pc = "kick_get"
    /\ LET c == ctxOf(poll.sc) IN
       /\ conn[c].queue # <<>>
       /\ conn' = [conn EXCEPT ![c].queue = Tail(@)]
       /\ poll' = [poll EXCEPT !.pc = "kick_chk",
                               !.qcopy = IF Head(conn[c].queue).channel # poll.arg
                                         THEN Append(@, Head(conn[c].queue))
                                         ELSE @]
    /\ UNCHANGED sconn
    /\ PollFrame

\* lines 508-510: put the kept items back, then status = "ready"
KickPut ==
    /\ poll.pc = "kick_put"
    /\ LET c == ctxOf(poll.sc) IN
       IF poll.qcopy # <<>>
       THEN /\ conn' = [conn EXCEPT ![c].queue = Append(@, Head(poll.qcopy))]
            /\ poll' = [poll EXCEPT !.qcopy = Tail(@)]
       ELSE /\ conn' = [conn EXCEPT ![c].status = "ready"]
            /\ poll' = PollIdle
    /\ UNCHANGED sconn
    /\ PollFrame


(***************************************************************************)
(* Part 3.  Inputs, initial states and specifications.                     *)
(***************************************************************************)

\* an IRC URL as written: irc[s]://host[:port]/channel[?key=K]
UrlString(u) ==
    u.scheme \o <<":", "/", "/">> \o u.host
      \o (IF u.port = <<>> THEN <<>> ELSE <<":">> \o u.port)
      \o <<"/">> \o u.chan
      \o (IF u.key = <<>> THEN <<>> ELSE <<"?">> \o KEYEQ \o u.key)

IRC == <<"i", "r", "c">>
IRCS == <<"i", "r", "c", "s">>

Written(scheme, host, port, chan, key) ==
    [scheme |-> scheme, host |-> host, port |-> port, chan |-> chan, key |-> key]

Host1 == <<"s", "1">>
Host2 == <<"s", "2">>
Host3 == <<"s", "3">>
Host4 == <<"s", "4">>

\* a request to one channel of one server
To(host, chan) == UrlString(Written(IRC, host, <<>>, chan, <<>>))

\* the 'to' lists of the requests the listeners receive
Requests == { <<To(Host1, <<"a">>)>>, <<To(Host1, <<"b">>)>> }

Texts == {"text"}

\* the iteration orders of a dictionary with keys in E
Orders(E) ==
    {o \in [1 .. Cardinality(E) -> E] : \A i, j \in DOMAIN o : o[i] = o[j] => i = j}

Endpoints == {<<Host1, 6667>>}

\* the lines the servers send, by event
EventArgs ==
    [eof         |-> {<<>>},
     ping        |-> {<<"x">>},
     welcome     |-> {<<>>},
     badnick     |-> {<<>>},
     featurelist |-> {<<DEAF \o <<"D">>, MAXCHANNELS \o <<"1">>>>},
     kick        |-> {<<"#", "a">>}]

EventNames == DOMAIN EventArgs

Configs ==
    [py3 : {FALSE, TRUE}, password : {FALSE}, nick_needs_number : {TRUE},
     logfile : {FALSE}]

NoUrl == Written(<<>>, <<>>, <<>>, <<>>, <<>>)
NoTgt == [done |-> FALSE]

InitRelay ==
    /\ lsn = NoListeners
    /\ now = 0
    /\ servers = EmptyMap
    /\ conn = [c \in Conns |-> NewConnection(NoTarget, 0)]
    /\ nconn = 0
    /\ sconn = [s \in SCs |-> NewServerConnection]
    /\ nsc = 0
    /\ poll = PollIdle
    /\ handleExc = "none"
    /\ nreq = 0
    /\ nev = 0
    /\ ticks = 0

Init ==
    /\ InitRelay
    /\ cfg \in Configs
    /\ url = NoUrl
    /\ tgt = NoTgt

\* ---- the threads, over the inputs a specification draws ----
Listener(requests, orders) ==
    \E to \in requests, text \in Texts, order \in orders :
        Handle(to, text, order)

Clock(delays) == \E d \in delays : Tick(d)

ConsumerOpen(hows) ==
    \E c \in Conns, how \in hows, seed \in NickSeeds : ConsumerConnect(c, how, seed)

ConsumerSend(oks) ==
    \E c \in Conns :
        \/ ConsumerReady(c)
        \/ ConsumerGet(c)
        \/ \E ok \in oks : ConsumerJoin(c, ok)
        \/ \E ok \in oks : ConsumerPrivmsg(c, ok)
        \/ ConsumerMark(c)

ConsumerEnd ==
    \E c \in Conns :
        \/ ConsumerExpire(c)
        \/ ConsumerClose(c)

ConsumerIdle(oks) ==
    \E c \in Conns, ok \in oks : ConsumerIdleTimeout(c, ok)

Receive(events) ==
    \E sc \in SCs, ev \in events : \E arg \in EventArgs[ev] : PollRecv(sc, ev, arg)

Kick == KickStart \/ KickChk \/ KickGet \/ KickPut

\* ---- Spec: the relay with a server that welcomes, pings, announces
\* limits, kicks and hangs up; no clock, no failing send ----
Next ==
    \/ Listener(Requests, Orders(Endpoints))
    \/ ConsumerOpen({"ok"})
    \/ ConsumerSend({TRUE})
    \/ ConsumerEnd
    \/ Receive({"eof", "ping", "welcome", "featurelist", "kick"})
    \/ HandleEof
    \/ HandlePing(TRUE)
    \/ HandleWelcome(TRUE)
    \/ HandleFeatures(TRUE)
    \/ Kick

Spec == Init /\ [][Next]_vars

\* ---- SpecCap: requests to four servers, some of which refuse the
\* connection; the clock makes the Dispatchers differ in age ----
\* the iteration orders of self.servers that the model draws
CapOrders ==
    { <<<<Host1, 6667>>, <<Host2, 6667>>, <<Host3, 6667>>, <<Host4, 6667>>>>,
      <<<<Host4, 6667>>, <<Host3, 6667>>, <<Host2, 6667>>, <<Host1, 6667>>>> }

CapRequests ==
    { <<To(Host1, <<"a">>)>>,
      <<To(Host2, <<"a">>)>>,
      <<To(Host3, <<"a">>), To(Host4, <<"a">>)>> }

NextCap ==
    \/ Listener(CapRequests, CapOrders)
    \/ Clock({HANDSHAKE_TTL + 1})
    \/ ConsumerOpen({"fail"})
    \/ \E c \in Conns : ConsumerClose(c)

SpecCap == Init /\ [][NextCap]_vars

\* ---- SpecTime: one server that welcomes, and a clock that passes the
\* transmission time-to-live ----
NextTime ==
    \/ Listener(Requests, Orders(Endpoints))
    \/ Clock({XMIT_TTL + 1})
    \/ ConsumerOpen({"ok"})
    \/ ConsumerSend({TRUE})
    \/ ConsumerIdle({TRUE, FALSE})
    \/ ConsumerEnd
    \/ Receive({"welcome"})
    \/ HandleWelcome(TRUE)

SpecTime == Init /\ [][NextTime]_vars

\* ---- SpecWire: every line the daemon writes: a NickServ password may be
\* configured, the server rejects nicks, announces DEAF, pings, hangs up ----
WireConfigs ==
    [py3 : {FALSE, TRUE}, password : {FALSE, TRUE}, nick_needs_number : {TRUE},
     logfile : {FALSE}]

InitWire ==
    /\ InitRelay
    /\ cfg \in WireConfigs
    /\ url = NoUrl
    /\ tgt = NoTgt

NextWire ==
    \/ Listener({<<To(Host1, <<"a">>)>>}, Orders(Endpoints))
    \/ ConsumerOpen({"ok"})
    \/ ConsumerSend({TRUE})
    \/ ConsumerEnd
    \/ Receive({"eof", "ping", "welcome", "badnick", "featurelist"})
    \/ HandleEof
    \/ HandlePing(TRUE)
    \/ HandleWelcome(TRUE)
    \/ \E d \in 1 .. 3 : HandleBadnick(d, TRUE)
    \/ HandleFeatures(TRUE)

SpecWire == InitWire /\ [][NextWire]_vars

\* ---- SpecTarget: Target(u) for the URLs irc[s]://host[:port]/channel[?key=K]
WrittenChannels ==
    {<<"a">>, <<"A">>, <<"a", "b">>, <<"#", "a">>, <<"&", "a">>, <<"+", "a">>}

WrittenUrls ==
    {Written(scheme, host, port, chan, key) :
        scheme \in {IRC, IRCS}, host \in {Host1, Host2},
        port \in {<<>>, <<"7", "0">>}, chan \in WrittenChannels,
        key \in {<<>>, <<"k">>}}

InitTarget ==
    /\ InitRelay
    /\ cfg \in {c \in Configs : ~c.py3}
    /\ url \in WrittenUrls
    /\ tgt = NoTgt

\* build the Target of the URL, and the Target of the same URL with the
\* channel of the first in the place of the channel
Parse ==
    /\ ~tgt.done
    /\ LET t == Target(UrlString(url))
       IN  tgt' = [done  |-> TRUE,
                   t     |-> t,
                   again |-> Target(UrlString([url EXCEPT !.chan = t.channel]))]
    /\ UNCHANGED <<relayVars, url>>

NextTarget == Parse

SpecTarget == InitTarget /\ [][NextTarget]_vars

\* ---- SpecParse: request lines of every shape arrive at the listeners of a
\* relay that connects, is welcomed and sends ----
LineListener(lines, orders) ==
    \E line \in lines, order \in orders : HandleLine(line, order)

UrlA == To(Host1, <<"a">>)
UrlB == To(Host1, <<"b">>)

ParseLines ==
    { JsonLine("garbage", ToAbsent, MsgAbsent),
      JsonLine("array", ToAbsent, MsgAbsent),
      JsonLine("object", ToAbsent, MsgString("text")),
      JsonLine("object", ToStr(UrlA), MsgAbsent),
      JsonLine("object", ToNum, MsgString("text")),
      JsonLine("object", ToSeq(<<JString(UrlA)>>), MsgNumber),
      JsonLine("object", ToStr(UrlA), MsgString("text")),
      JsonLine("object", ToSeq(<<JString(UrlB)>>), MsgString("text")) }

NextParse ==
    \/ LineListener(ParseLines, Orders(Endpoints))
    \/ ConsumerOpen({"ok"})
    \/ ConsumerSend({TRUE})
    \/ ConsumerEnd
    \/ Receive({"welcome", "eof"})
    \/ HandleWelcome(TRUE)
    \/ HandleEof

SpecParse == Init /\ [][NextParse]_vars


\* ---- SpecMixed: requests whose 'to' list mixes valid URLs with entries
\* that are no string, lack the server name or lack the channel, on a relay
\* whose server announces a channel limit ----
MixedLines ==
    LET NoHostUrl == UrlString(Written(IRC, <<>>, <<>>, <<"a">>, <<>>))
        NoChannelUrl == UrlString(Written(IRC, Host1, <<>>, <<>>, <<>>))
    IN  { JsonLine("object",
                   ToSeq(<<JNumber, JString(UrlB), JString(NoHostUrl)>>),
                   MsgString("text")),
          JsonLine("object",
                   ToSeq(<<JString(UrlA), JString(NoChannelUrl), JString(UrlB)>>),
                   MsgString("text")) }

NextMixed ==
    \/ LineListener(MixedLines, Orders(Endpoints))
    \/ ConsumerOpen({"ok"})
    \/ ConsumerSend({TRUE})
    \/ Receive({"welcome", "featurelist"})
    \/ HandleWelcome(TRUE)
    \/ HandleFeatures(TRUE)

SpecMixed == Init /\ [][NextMixed]_vars


\* ---- SpecRoute: requests to three endpoints, two of them on one host, one
\* of them asked for with both schemes ----
UrlPlain == UrlString(Written(IRC, Host1, <<"7", "0">>, <<"a">>, <<>>))
UrlTls == UrlString(Written(IRCS, Host1, <<"7", "0">>, <<"b">>, <<>>))
UrlDefault == UrlString(Written(IRC, Host1, <<>>, <<"c">>, <<>>))

RouteRequests ==
    LET UrlOther == UrlString(Written(IRC, Host2, <<>>, <<"d">>, <<>>))
    IN  { <<UrlPlain>>, <<UrlDefault>>, <<UrlPlain, UrlTls>>,
          <<UrlPlain, UrlDefault, UrlOther, UrlTls>> }

RouteOrders ==
    { <<<<Host1, 70>>, <<Host1, 6667>>, <<Host2, 6667>>>>,
      <<<<Host2, 6667>>, <<Host1, 6667>>, <<Host1, 70>>>> }

NextRoute ==
    \/ Listener(RouteRequests, RouteOrders)
    \/ ConsumerOpen({"ok"})
    \/ Receive({"welcome"})
    \/ HandleWelcome(TRUE)

SpecRoute == Init /\ [][NextRoute]_vars

\* ---- SpecTls: requests with both schemes for one (servername, port), on a
\* relay that connects, is welcomed and sends ----
NextTls ==
    \/ Listener({ <<UrlPlain>>, <<UrlTls>> }, {<<<<Host1, 70>>>>})
    \/ ConsumerOpen({"ok"})
    \/ ConsumerSend({TRUE})
    \/ Receive({"welcome"})
    \/ HandleWelcome(TRUE)

SpecTls == Init /\ [][NextTls]_vars


\* ---- SpecSimple: one request to a fresh endpoint, a server that answers
\* the handshake with a welcome, sends that never fail; every thread that can
\* take a step eventually takes one ----
FirstRequest ==
    LET UrlPass == UrlString(Written(IRC, <<"u", ":", "p", "@">> \o Host1,
                                     <<>>, <<"a">>, <<>>))
    IN  /\ nreq = 0
        /\ \E to \in { <<UrlA>>, <<UrlPass>> }, text \in {"text", ""} :
               Handle(to, text, <<<<Host1, 6667>>>>)

InitSimple ==
    /\ InitRelay
    /\ cfg \in WireConfigs
    /\ url = NoUrl
    /\ tgt = NoTgt

NextSimple ==
    \/ FirstRequest
    \/ ConsumerOpen({"ok"})
    \/ ConsumerSend({TRUE})
    \/ Receive({"welcome"})
    \/ HandleWelcome(TRUE)

\* the consumer thread, the server and the poller thread keep running
SpecSimple ==
    /\ InitSimple
    /\ [][NextSimple]_vars
    /\ WF_vars(ConsumerOpen({"ok"}))
    /\ WF_vars(ConsumerSend({TRUE}))
    /\ WF_vars(Receive({"welcome"}))
    /\ WF_vars(HandleWelcome(TRUE))


\* ---- SpecFault: a server that refuses connections and hangs up, sends
\* that fail: the consumer threads run into exceptions ----
NextFault ==
    \/ Listener({<<UrlA>>}, Orders(Endpoints))
    \/ ConsumerOpen({"ok", "fail", "nickfail", "userfail"})
    \/ ConsumerSend({TRUE, FALSE})
    \/ ConsumerEnd
    \/ Receive({"welcome", "eof"})
    \/ HandleWelcome(TRUE)
    \/ HandleEof

SpecFault == Init /\ [][NextFault]_vars


\* ---- SpecPlace: requests to two servers that refuse or accept the
\* connection; a Dispatcher that is removed stops the garbage collection of
\* the others under Python 3, so that a list keeps an expired Connection ----
PlaceRequests == { <<To(Host2, <<"a">>), UrlA>>, <<UrlA>>, <<UrlB>> }

NextPlace ==
    \/ Listener(PlaceRequests, Orders({<<Host1, 6667>>, <<Host2, 6667>>}))
    \/ ConsumerOpen({"ok", "fail"})
    \/ ConsumerSend({TRUE})
    \/ \E c \in Conns : ConsumerClose(c)
    \/ Receive({"welcome"})
    \/ HandleWelcome(TRUE)

SpecPlace == Init /\ [][NextPlace]_vars


\* ---- SpecScavenge: a server that announces a channel limit, and a clock
\* that passes the time-to-live of a channel ----
NextScavenge ==
    \/ Listener(Requests, Orders(Endpoints))
    \/ Clock({CHANNEL_TTL + 1})
    \/ ConsumerOpen({"ok"})
    \/ ConsumerSend({TRUE})
    \/ ConsumerIdle({TRUE})
    \/ ConsumerEnd
    \/ Receive({"welcome", "featurelist"})
    \/ HandleWelcome(TRUE)
    \/ HandleFeatures(TRUE)

SpecScavenge == Init /\ [][NextScavenge]_vars


\* ---- SpecTtl: a server that refuses the connection, accepts it and stays
\* silent, or welcomes; a send of USER that fails; a clock that reaches and
\* passes HANDSHAKE_TTL and UNSEEN_TTL ----
NextTtl ==
    \/ Listener({<<UrlA>>}, Orders(Endpoints))
    \/ Clock({HANDSHAKE_TTL, 1})
    \/ ConsumerOpen({"ok", "fail", "userfail"})
    \/ ConsumerSend({TRUE})
    \/ ConsumerEnd
    \/ Receive({"welcome"})
    \/ HandleWelcome(TRUE)

SpecTtl == Init /\ [][NextTtl]_vars


\* ---- SpecRefuse: a plain and a TLS endpoint that refuse the connection,
\* present a certificate for another host, or accept; the server welcomes
\* only a client that has registered, and hangs up ----
Registered(sc) == \E i \in DOMAIN sconn[sc].wire : sconn[sc].wire[i].kind = "USER"

NextRefuse ==
    \/ Listener({ <<UrlA>>, <<UrlTls>> }, {<< <<Host1, 6667>>, <<Host1, 70>> >>})
    \/ ConsumerOpen({"ok", "fail", "certfail"})
    \/ ConsumerSend({TRUE})
    \/ ConsumerEnd
    \/ \E sc \in SCs : Registered(sc) /\ PollRecv(sc, "welcome", <<>>)
    \/ Receive({"eof"})
    \/ HandleWelcome(TRUE)
    \/ HandleEof

SpecRefuse == Init /\ [][NextRefuse]_vars


\* ---- SpecPoll: requests for one channel, a server that welcomes and
\* kicks; the poller thread and the consumer threads keep running, the
\* listener serves the requests that happen to come ----
NextPoll ==
    \/ Listener({<<UrlA>>}, Orders(Endpoints))
    \/ ConsumerOpen({"ok"})
    \/ ConsumerSend({TRUE})
    \/ Receive({"welcome", "kick"})
    \/ HandleWelcome(TRUE)
    \/ Kick

SpecPoll ==
    /\ Init
    /\ [][NextPoll]_vars
    /\ WF_vars(HandleWelcome(TRUE))
    /\ WF_vars(Kick)
    /\ WF_vars(ConsumerSend({TRUE}))
    /\ WF_vars(ConsumerOpen({"ok"}))


\* ---- SpecSelect: a server that welcomes and hangs up, sends of the
\* consumer threads that fail while the poller thread is inside the mutex ----
NextSelect ==
    \/ Listener({<<UrlA>>}, Orders(Endpoints))
    \/ ConsumerOpen({"ok"})
    \/ ConsumerSend({TRUE})
    \/ \E c \in Conns : ConsumerShipBreaks(c) \/ ConsumerShipResumes(c)
    \/ ConsumerEnd
    \/ Receive({"welcome", "eof"})
    \/ HandleWelcome(TRUE)
    \/ HandleEof

SpecSelect == Init /\ [][NextSelect]_vars


\* ---- SpecFeatures: a server whose 005 lines announce channel limits in
\* every form: MAXCHANNELS, CHANLIMIT with one or several pairs and with the
\* first prefix group "#", "&" or "#&", and a token of another name ----
FeatureLists ==
    LET key == SubSeq(CHANLIMIT, 1, 10)
    IN  { << MAXCHANNELS \o <<"2">> >>,
          << CHANLIMIT \o <<"1">> >>,
          << key \o <<"&", ":", "1">> >>,
          << key \o <<"#", "&", ":", "3">> >>,
          << CHANLIMIT \o <<"1", ",", "&", "+", ":", "2">> >>,
          << <<"S", "I", "L", "E", "N", "C", "E", "=", "4">> >>,
          << MAXCHANNELS \o <<"2">>, CHANLIMIT \o <<"1">> >> }

NextFeatures ==
    \/ Listener({<<UrlA>>}, Orders(Endpoints))
    \/ ConsumerOpen({"ok"})
    \/ \E sc \in SCs, arg \in FeatureLists : PollRecv(sc, "featurelist", arg)
    \/ HandleFeatures(TRUE)

SpecFeatures == Init /\ [][NextFeatures]_vars


\* ---- SpecChannel: the Target of a URL whose channel is written in the
\* path or after a "#", in lower or upper case, with or without ",isnick" ----
ChannelUrls ==
    {Written(scheme, host, port, chan, key) :
        scheme \in {IRC, IRCS}, host \in {Host1, Host2},
        port \in {<<>>, <<"7", "0">>},
        chan \in {<<"a">>, <<"A">>, <<"#", "a">>, <<"#", "A">>,
                  <<"a", "#", "B">>, <<"&", "A">>, <<"+", "a">>,
                  <<"A">> \o ISNICK},
        key \in {<<>>, <<"k">>}}

InitChannel ==
    /\ InitRelay
    /\ cfg \in {c \in Configs : ~c.py3}
    /\ url \in ChannelUrls
    /\ tgt = NoTgt

SpecChannel == InitChannel /\ [][NextTarget]_vars


\* ---- SpecListeners: the stream listener and the datagram listener handle
\* requests for two servers at the same time ----
NextListeners ==
    \/ \E l \in Listeners, to \in {<<UrlA>>, <<UrlB>>, <<To(Host2, <<"a">>)>>},
          order \in Orders({<<Host1, 6667>>, <<Host2, 6667>>}) :
              ListenerChoose(l, to, "text", order)
    \/ \E l \in Listeners : ListenerStart(l)
    \/ \E l \in Listeners : ListenerPut(l)

SpecListeners == Init /\ [][NextListeners]_vars



\* ---- SpecInput: a server that sends, besides the welcome, a KICK and a
\* well-formed 005 line, a 005 line whose MAXCHANNELS value is no number ----
NextInput ==
    \/ Listener({<<UrlA>>}, Orders(Endpoints))
    \/ ConsumerOpen({"ok"})
    \/ ConsumerSend({TRUE})
    \/ Receive({"welcome", "kick"})
    \/ \E sc \in SCs, v \in {<<"2">>, <<"x">>} :
          PollRecv(sc, "featurelist", <<MAXCHANNELS \o v>>)
    \/ HandleWelcome(TRUE)
    \/ HandleFeatures(TRUE)
    \/ Kick

SpecInput == Init /\ [][NextInput]_vars


(***************************************************************************)
(* Part 4.  The claims.                                                    *)
(***************************************************************************)

WireOf(sc) == sconn[sc].wire

Last(w) == w[Len(w)]

\* a PRIVMSG of a queued item, written by a consumer thread
ChannelPrivmsg(l) == l.kind = "PRIVMSG" /\ l.by[1] = "consumer"

LimitOf(cn, p) ==
    IF p \in DOMAIN cn.channel_limits THEN cn.channel_limits[p] ELSE CHANNEL_MAX

JoinedWith(cn, p) == {ch \in DOMAIN cn.channels_joined : ch[1] = p}

\* C1: in every reachable state, for every Connection and every channel
\* prefix p, the channels of channels_joined that start with p number at
\* most channel_limits.get(p, CHANNEL_MAX).
C1_ChannelLimitRespected ==
    \A c \in 1 .. nconn : \A p \in {"#", "&", "+"} :
        Cardinality(JoinedWith(conn[c], p)) <= LimitOf(conn[c], p)

\* C2: after every call of Irker.handle the number of Dispatchers in
\* Irker.servers is at most CONNECTION_MAX.
C2_GlobalCap == Cardinality(DOMAIN servers) <= CONNECTION_MAX

\* C2, its case: a Dispatcher was evicted at the limit: a live Connection is
\* held by no Dispatcher any more.
C2_Evicted ==
    \E c \in 1 .. nconn :
        /\ live(conn[c])
        /\ \A ep \in DOMAIN servers : c \notin SeqRange(servers[ep].connections)

\* C3: of two messages handled in that order for the same server, port and
\* channel, the PRIVMSG of the second is never on the wire before the
\* PRIVMSG of the first.
C3_ChannelOrder ==
    \A sc \in SCs : \A i, j \in DOMAIN WireOf(sc) :
        LET m1 == WireOf(sc)[i]
            m2 == WireOf(sc)[j]
        IN  (i < j /\ ChannelPrivmsg(m1) /\ ChannelPrivmsg(m2)
               /\ m1.arg[1] = m2.arg[1])
            => m1.arg[2] < m2.arg[2]

\* C4: every PRIVMSG of a queued item is written while the status of the
\* owning Connection is "ready".
C4_ReadyAtSend ==
    \A sc \in SCs : \A i \in DOMAIN WireOf(sc) :
        ChannelPrivmsg(WireOf(sc)[i]) => WireOf(sc)[i].st = "ready"

\* C5: while a received PING X waits for its answer, the only line written
\* to that socket is PONG X, and the handling of the PING ends with it.
C5_PongIsNext ==
    [][(poll.pc = "event" /\ poll.ev = "ping")
         => LET w  == sconn[poll.sc].wire
                w2 == sconn'[poll.sc].wire
            IN  /\ w2 # w => (Len(w2) = Len(w) + 1 /\ Last(w2).kind = "PONG"
                              /\ Last(w2).arg = poll.arg)
                /\ poll'.pc # "event" => w2 # w]_vars

\* the consumer thread of c has written the QUIT of the idle timeout
QuitShipped(c) ==
    \E sc \in SCs : \E i \in DOMAIN WireOf(sc) :
        WireOf(sc)[i].kind = "QUIT" /\ WireOf(sc)[i].by = <<"consumer", c>>

\* the pass of the consumer of c through lines 542-552 with a server
\* connection whose socket is open
IdlePass(c, ok) == ConsumerIdleTimeout(c, ok) /\ canShip(Here, conn[c].connection)

Canonical(chan) ==
    IF Lower(chan)[1] \in {"#", "&", "+"} THEN Lower(chan) ELSE <<"#">> \o Lower(chan)

\* C8: the Target of irc[s]://host[:port]/channel[?key=K] has servername
\* host, the given port (6667 for irc, 6697 for ircs when absent), key K and
\* the canonical channel; the Target of the same URL with that channel as
\* its channel part has the same channel.
C8_UrlRoundTrip ==
    tgt.done =>
        /\ tgt.t.servername = url.host
        /\ tgt.t.port = (IF url.port # <<>> THEN ToInt(url.port, 0)
                         ELSE IF url.scheme = IRCS THEN 6697 ELSE 6667)
        /\ tgt.t.key = url.key
        /\ tgt.t.channel = Canonical(url.chan)
        /\ tgt.again.channel = tgt.t.channel

C10_ConnectionFifo ==
    \A sc \in SCs : \A i, j \in DOMAIN WireOf(sc) :
        LET m1 == WireOf(sc)[i]
            m2 == WireOf(sc)[j]
        IN  (i < j /\ ChannelPrivmsg(m1) /\ ChannelPrivmsg(m2) /\ m1.by = m2.by)
            => m1.arg[2] < m2.arg[2]

\* the request line is one of the malformed lines: no JSON, no JSON object,
\* an object without 'to' or 'privmsg', with a 'to' that is neither a string
\* nor a list, or with a 'privmsg' that is no string
Malformed(line) ==
    \/ line.json # "object"
    \/ line.to.type = "absent"
    \/ line.privmsg.type = "absent"
    \/ line.to.type \notin {"string", "list"}
    \/ line.privmsg.type # "string"

\* C11: handling a malformed request line creates no Dispatcher and no
\* Connection, enqueues nothing, writes to no socket and leaves the poller
\* as it is, so that the request that follows meets the state the malformed
\* one met.
C11_MalformedNoOp ==
    [][\A line \in ParseLines, order \in Orders(Endpoints) :
          (Malformed(line) /\ HandleLine(line, order))
              => UNCHANGED <<servers, conn, nconn, sconn, nsc, poll>>]_vars

\* C11, its case: the first request was malformed and the second, a valid
\* one, has been enqueued: the first message of the only Connection, which
\* has not yet connected, is that of the second request.
C11_ValidAfterMalformed ==
    /\ nreq = 2
    /\ nconn = 1
    /\ nsc = 0
    /\ conn[1].status = "unseen"
    /\ Len(conn[1].queue) = 1
    /\ Head(conn[1].queue).message.id = 2

\* the entries of a 'to' list that are valid URLs: strings with a server
\* name and a channel
ValidEntries(list) ==
    {i \in DOMAIN list :
        /\ list[i].type = "string"
        /\ Target(list[i].str).servername # <<>>
        /\ Target(list[i].str).channel # <<>>}

\* the places, in the queues cs, of the items of message id for a channel
Enqueued(cs, id, channel) ==
    {p \in Conns \X (1 .. MaxReq * 3) :
        /\ p[2] <= Len(cs[p[1]].queue)
        /\ cs[p[1]].queue[p[2]].message.id = id
        /\ cs[p[1]].queue[p[2]].channel = channel}

\* C12: handling a request whose 'to' list mixes valid URLs with invalid
\* entries enqueues the message once for every valid URL, wherever the
\* invalid entries stand, and enqueues it for no other channel.
C12_ValidDispatchedOnce ==
    [][\A line \in MixedLines, order \in Orders(Endpoints) :
          HandleLine(line, order) =>
              /\ \A i \in ValidEntries(line.to.list) :
                    Cardinality(Enqueued(conn', nreq + 1,
                                         Target(line.to.list[i].str).channel)) = 1
              /\ \A c \in Conns : \A k \in DOMAIN conn'[c].queue :
                    conn'[c].queue[k].message.id = nreq + 1 =>
                        \E i \in ValidEntries(line.to.list) :
                            conn'[c].queue[k].channel
                                = Target(line.to.list[i].str).channel]_vars

\* the relay state Dispatcher.dispatch starts from
Relay == [servers |-> servers, conn |-> conn, nconn |-> nconn, exc |-> "none",
          made |-> 0]

\* C13: a request for a channel of an endpoint whose live Connections have
\* all reached their channel limit, none of them joined to the channel and
\* none holding a channel older than CHANNEL_TTL, creates a new Connection
\* and enqueues the message on it.
C13_OverflowOpensConnection ==
    [][\A to \in Requests, order \in Orders(Endpoints) :
          LET target == Target(to[1]) IN
          (/\ Handle(to, "text", order)
           /\ server(target) \in DOMAIN servers
           /\ overflow(Relay, server(target), target.channel, now))
          => /\ nconn' = nconn + 1
             /\ Enqueued(conn', nreq + 1, target.channel) = {<<nconn', 1>>}]_vars

\* the (servername, port) a Target names
EndpointOf(t) == <<t.servername, t.port>>

\* the Targets of a list of URLs
TargetsOf(to) == [i \in DOMAIN to |-> Target(to[i])]

\* the Connections of the Dispatcher that Irker.servers holds for an endpoint
Pool(ss, ep) == IF ep \in DOMAIN ss THEN SeqRange(ss[ep].connections) ELSE {}

\* the Connections on which the message of request id for Target t is enqueued
Carriers(cs, id, t) == {p[1] : p \in Enqueued(cs, id, t.channel)}

C17_TlsOnlyForIrcs ==
    \A sc \in SCs : \A i \in DOMAIN WireOf(sc) :
        (/\ ChannelPrivmsg(WireOf(sc)[i])
         /\ WireOf(sc)[i].arg[1] = Target(UrlTls).channel)
        => sconn[sc].ssl

\* the kinds of the lines of a wire
Kinds(w) == [i \in DOMAIN w |-> w[i].kind]

IsPrefix(s, t) == Len(s) <= Len(t) /\ s = SubSeq(t, 1, Len(s))

\* the lines of a wire written by consumer threads
ByConsumer(w) == SelectSeq(w, LAMBDA l : l.by[1] = "consumer")

\* the one PRIVMSG of the relay's first message stands on a wire
FirstSent ==
    \E sc \in SCs : \E i \in DOMAIN WireOf(sc) :
        ChannelPrivmsg(WireOf(sc)[i]) /\ WireOf(sc)[i].arg[2] = 1

\* no JOIN is written before the welcome is received on the socket
JoinAfterWelcome ==
    \A sc \in SCs :
        (\E i \in DOMAIN WireOf(sc) : WireOf(sc)[i].kind = "JOIN")
            => sconn[sc].welcomed

\* the lines on the one socket are a prefix of NICK, USER, JOIN, PRIVMSG
ExactTranscript ==
    /\ nsc <= 1
    /\ IsPrefix(Kinds(WireOf(1)), <<"NICK", "USER", "JOIN", "PRIVMSG">>)
    /\ \A i \in DOMAIN WireOf(1) :
          WireOf(1)[i].kind \in {"JOIN", "PRIVMSG"}
              => WireOf(1)[i].arg[1] = <<"#", "a">>

\* C15, as stated: for one valid request to a fresh endpoint whose server
\* welcomes and never fails, the lines on the new socket are NICK, USER,
\* JOIN <channel>, PRIVMSG <channel> :<text>, in this order, the JOIN comes
\* after the welcome, and the PRIVMSG is eventually sent.
C15_SimpleRelay ==
    /\ [](ExactTranscript /\ JoinAfterWelcome)
    /\ (nreq = 1 ~> FirstSent)

\* the lines the consumer thread writes are a prefix of NICK, USER, JOIN,
\* PRIVMSG, after a PASS when the URL carries a password; the only other
\* lines are the PRIVMSG nickserv of the poller thread, written when a
\* NickServ password is configured
ConsumerTranscript ==
    /\ nsc <= 1
    /\ IsPrefix(Kinds(ByConsumer(WireOf(1))),
                IF nconn = 1 /\ conn[1].target.password # <<>>
                THEN <<"PASS", "NICK", "USER", "JOIN", "PRIVMSG">>
                ELSE <<"NICK", "USER", "JOIN", "PRIVMSG">>)
    /\ \A i \in DOMAIN WireOf(1) :
          LET l == WireOf(1)[i] IN
          /\ l.kind \in {"JOIN", "PRIVMSG"} /\ l.by[1] = "consumer"
                => l.arg[1] = <<"#", "a">>
          /\ l.by[1] # "consumer"
                => /\ cfg.password
                   /\ l.kind = "PRIVMSG"
                   /\ l.arg[1] = NICKSERV
                   /\ sconn[1].welcomed

\* a request with a text that is not empty is waiting in the queue
TextQueued ==
    /\ nconn = 1
    /\ conn[1].queue # <<>>
    /\ Head(conn[1].queue).message.text # ""

\* C15, amended: the consumer thread writes, in this order, PASS (only for
\* a URL with a password), NICK, USER, JOIN <channel> and PRIVMSG <channel>
\* :<text>, the JOIN after the welcome was received; the poller thread adds
\* PRIVMSG nickserv after the welcome when a NickServ password is
\* configured; and when the text is not empty the PRIVMSG is eventually sent.
C15_SimpleRelayByThread ==
    /\ [](ConsumerTranscript /\ JoinAfterWelcome)
    /\ (TextQueued ~> FirstSent)

\* C15, its case: the whole transcript is on the wire, the welcome received.
C15_TranscriptComplete ==
    /\ nreq = 1
    /\ Kinds(ByConsumer(WireOf(1))) = <<"NICK", "USER", "JOIN", "PRIVMSG">>
    /\ sconn[1].welcomed
    /\ FirstSent

\* the poller finishes the handler of the event ev it has read
Handled(ev) == poll.pc = "event" /\ poll.ev = ev /\ poll'.pc = "idle"

\* C16: when the server rejects the nickname of a handshaking Connection
\* whose template takes a number, the Connection stays "handshaking", its
\* nick_trial grows by 1, 2 or 3 and a NICK with the new number is written
\* to its socket; a welcome then makes the Connection "ready".
C16_NickRetry ==
    [][LET c == ctxOf(poll.sc) IN
       /\ (/\ Handled("badnick")
           /\ c # 0
           /\ cfg.nick_needs_number
           /\ conn[c].status = "handshaking"
           /\ conn[c].connection = poll.sc)
          => /\ conn'[c].status = "handshaking"
             /\ conn'[c].nick_trial - conn[c].nick_trial \in 1 .. 3
             /\ sconn'[poll.sc].wire =
                    Append(WireOf(poll.sc),
                           Line("NICK", conn'[c].nick_trial, <<"poller", 0>>,
                                "handshaking"))
       /\ (Handled("welcome") /\ c # 0) => conn'[c].status = "ready"]_vars

\* C16, its case: on one socket the first NICK was followed by a NICK of the
\* poller thread with another number, and later by the JOIN and the PRIVMSG
\* of a queued item.
C16_RetriedThenSent ==
    \E sc \in SCs : \E i, j, k \in DOMAIN WireOf(sc) :
        /\ i < j /\ j < k
        /\ WireOf(sc)[1].kind = "NICK"
        /\ WireOf(sc)[i].kind = "NICK"
        /\ WireOf(sc)[i].by[1] = "poller"
        /\ WireOf(sc)[i].st = "handshaking"
        /\ WireOf(sc)[i].arg # WireOf(sc)[1].arg
        /\ WireOf(sc)[j].kind = "JOIN"
        /\ ChannelPrivmsg(WireOf(sc)[k])

\* C18: every channel in the channels_joined of a Connection with a server
\* connection has had a JOIN written to that server connection and no KICK
\* received for it since, once the handler of a received KICK has removed
\* the channel.
C18_JoinedSound ==
    \A c \in Conns :
        (/\ c <= nconn
         /\ conn[c].connection # 0
         /\ ~(poll.pc = "event" /\ poll.ev = "kick"))
        => \A ch \in DOMAIN conn[c].channels_joined :
              /\ \E i \in DOMAIN WireOf(conn[c].connection) :
                    /\ WireOf(conn[c].connection)[i].kind = "JOIN"
                    /\ WireOf(conn[c].connection)[i].arg[1] = ch
              /\ ch \notin sconn[conn[c].connection].kicked

\* C19: a Connection whose status is "ready" has a server connection, and a
\* welcome was received on that server connection since it was opened.
C19_ReadyIsWelcomed ==
    \A c \in Conns :
        (c <= nconn /\ conn[c].status = "ready")
        => /\ conn[c].connection # 0
           /\ sconn[conn[c].connection].welcomed

\* C20: when the consumer loop of a Connection ends, by an exception or by a
\* break, the Connection's status is "expired" and nothing else changes;
\* the finally clause then closes the Connection's server connection,
\* if it has one, and takes it off the poller's list; neither step changes
\* another Connection, the Dispatchers or the poller thread.
C20_FaultContained ==
    [][\A c \in Conns :
          /\ (conn[c].thread \notin {"closing", "dead"}
                /\ conn'[c].thread = "closing")
             => /\ conn'[c].status = "expired"
                /\ \A d \in Conns \ {c} : conn'[d] = conn[d]
                /\ UNCHANGED <<servers, poll, handleExc>>
          /\ (conn[c].thread = "closing" /\ conn'[c].thread = "dead")
             => /\ conn[c].connection # 0
                      => /\ sconn'[conn[c].connection].socket = "none"
                         /\ ~sconn'[conn[c].connection].listed
                /\ \A d \in Conns \ {c} : conn'[d] = conn[d]
                /\ UNCHANGED <<servers, poll, handleExc>>]_vars

\* C20, its case: a consumer thread took an item and died before it wrote the
\* item's PRIVMSG, its Connection is "expired" and its socket closed, while
\* the poller runs and another Connection's thread is alive.
C20_OneDiedOthersRun ==
    \E c, d \in Conns :
        /\ c # d
        /\ conn[c].thread = "dead"
        /\ conn[c].status = "expired"
        /\ conn[c].item # NoItem
        /\ \A sc \in SCs : \A i \in DOMAIN WireOf(sc) :
              ChannelPrivmsg(WireOf(sc)[i])
                  => WireOf(sc)[i].arg[2] # conn[c].item.message.id
        /\ \A sc \in SCs : sconn[sc].context = c => sconn[sc].socket = "none"
        /\ alive(conn[d])
        /\ poll.pc # "dead"


\* the Connections of a list that are not expired
Unexpired(list) == SelectSeq(list, LAMBDA c : conn[c].status # "expired")

JoinedOf(ep) ==
    {p \in SeqRange(liveConnections(Relay, ep)) \X {<<"#", "a">>, <<"#", "b">>} :
        p[2] \in DOMAIN conn[p[1]].channels_joined}

\* C22: when no live Connection of the endpoint is joined to or accepting
\* the channel of a request and a joined channel of a live Connection was
\* last used longer ago than CHANNEL_TTL, handling the request ships PART
\* with reason "scavenged by irkerd" for the channel used longest ago, removes
\* that channel from the channels_joined of its Connection and enqueues the
\* item on that Connection.
C22_Scavenging ==
    [][nreq' # nreq =>
       \A to \in Requests, order \in Orders(Endpoints) :
          LET target == Target(to[1])
              ep     == server(target)
          IN  (/\ Handle(to, "text", order)
               /\ ep \in DOMAIN servers
               /\ liveConnections(Relay, ep) # <<>>
               /\ \A c \in SeqRange(liveConnections(Relay, ep)) :
                      /\ ~joined_to(conn[c], target.channel)
                      /\ ~accepting(conn[c], target.channel)
               /\ ancient(Relay, ep, now))
              => \E p \in JoinedOf(ep) :
                    /\ \A q \in JoinedOf(ep) :
                           conn[p[1]].channels_joined[p[2]]
                               <= conn[q[1]].channels_joined[q[2]]
                    /\ conn[p[1]].connection # 0
                    /\ \E i \in DOMAIN sconn'[conn[p[1]].connection].wire :
                           LET l == sconn'[conn[p[1]].connection].wire[i] IN
                           l.kind = "PART" /\ l.arg[1] = p[2]
                    /\ p[2] \notin DOMAIN conn'[p[1]].channels_joined
                    /\ Carriers(conn', nreq + 1, target) = {p[1]}]_vars


\* Dispatcher.last_xmit of the Dispatcher of endpoint q when the garbage
\* collection of a request for endpoint ep starts
XmitOf(q, ep) ==
    IF q = ep /\ nconn' # nconn THEN now
    ELSE LET xs == {conn[c].last_xmit : c \in SeqRange(servers[q].connections)}
         IN  CHOOSE m \in xs : \A x \in xs : x <= m

\* C23: when Irker.handle has returned, Irker.servers holds no Dispatcher
\* all of whose Connections are expired; and when a request for one URL
\* brings the number of Dispatchers to CONNECTION_MAX, none of them dead, the
\* Dispatcher removed is one whose last_xmit is the least of all Dispatchers
\* in the map.
C23_GcAndEviction ==
    [][nreq' # nreq =>
       \A to \in CapRequests, order \in CapOrders :
          (/\ Handle(to, "text", order)
           /\ handleExc' \in {"none", "RuntimeError"})
          => /\ \A q \in DOMAIN servers' :
                    \E c \in SeqRange(servers'[q].connections) :
                        conn'[c].status # "expired"
             /\ \A ep \in {server(Target(to[1]))} :
                \A before \in {DOMAIN servers \cup {ep}} :
                    (/\ Len(to) = 1
                     /\ Cardinality(before) = CONNECTION_MAX
                     /\ \A q \in DOMAIN servers \ {ep} :
                            \E c \in SeqRange(servers[q].connections) :
                                conn[c].status # "expired")
                    => /\ before \ DOMAIN servers' # {}
                       /\ \A r \in before \ DOMAIN servers' :
                          \A q \in before : XmitOf(r, ep) <= XmitOf(q, ep)]_vars


\* C24: a Connection whose status is "expired" keeps that status at every
\* later step of the poller thread, of the listeners and of its consumer
\* thread, and once its consumer thread is ending no new one is started.
C24_ExpiredTerminal ==
    [][\A c \in Conns :
          conn[c].status = "expired" =>
              /\ conn'[c].status = "expired"
              /\ conn[c].thread \in {"closing", "dead"}
                   => conn'[c].thread \in {"closing", "dead"}]_vars


\* one pass of the consumer thread of c from the top of its loop
ConsumerIteration(c) ==
    \/ ConsumerExpire(c)
    \/ ConsumerReady(c)
    \/ \E ok \in BOOLEAN : ConsumerIdleTimeout(c, ok)
    \/ \E how \in {"ok", "fail", "nickfail", "userfail"}, seed \in NickSeeds :
           ConsumerConnect(c, how, seed)

\* the pass of a handshaking Connection: expired and leaving the loop once
\* HANDSHAKE_TTL has passed since last_xmit; until then still handshaking,
\* at the top of the loop, with its queue untouched
Timeout(c) ==
    IF now > conn[c].last_xmit + HANDSHAKE_TTL
    THEN conn'[c].status = "expired" /\ conn'[c].thread = "closing"
    ELSE /\ conn'[c].status = "handshaking"
         /\ conn'[c].thread = "top"
         /\ conn'[c].queue = conn[c].queue

\* the finally clause of an expired Connection closes its server connection
ClosedAtExit(c) ==
    (ConsumerClose(c) /\ conn[c].connection # 0)
        => /\ sconn'[conn[c].connection].socket = "none"
           /\ ~sconn'[conn[c].connection].listed
           /\ conn'[c].thread = "dead"

C26_UnseenTimeout ==
    [][\A c \in Conns :
          (/\ conn[c].status = "unseen"
           /\ conn[c].queue # <<>>
           /\ now > conn[c].last_xmit + UNSEEN_TTL
           /\ ConsumerIteration(c))
          => conn'[c].status = "expired"]_vars


\* C27: a pass of the consumer loop of a Connection with status
\* "disconnected" and an empty queue leaves it "disconnected" while
\* now <= last_xmit + DISCONNECT_TTL, and sets it to "expired" once
\* now > last_xmit + DISCONNECT_TTL.
C27_DisconnectedLifetime ==
    [][\A c \in Conns :
          (/\ conn[c].status = "disconnected"
           /\ conn[c].queue = <<>>
           /\ ConsumerIteration(c))
          => IF now > conn[c].last_xmit + DISCONNECT_TTL
             THEN conn'[c].status = "expired"
             ELSE conn'[c].status = "disconnected"]_vars


\* C28: when Connection.handle_kick(c) completes on a Connection that was
\* joined to c when it started, c is not in channels_joined, the queue holds
\* exactly the items that were queued at the start for other channels, in
\* their order, every other entry of channels_joined is as it was, and the
\* status is "ready".
C28_KickFrame ==
    [][(poll.pc = "kick_put" /\ poll'.pc = "idle" /\ poll.arg \in DOMAIN poll.j0)
       => \A c \in {ctxOf(poll.sc)} :
             /\ poll.arg \notin DOMAIN conn'[c].channels_joined
             /\ conn'[c].queue =
                    SelectSeq(poll.q0, LAMBDA it : it.channel # poll.arg)
             /\ \A ch \in DOMAIN poll.j0 \ {poll.arg} :
                    /\ ch \in DOMAIN conn'[c].channels_joined
                    /\ conn'[c].channels_joined[ch] = poll.j0[ch]
             /\ conn'[c].status = "ready"]_vars


\* the consumer thread of c has left its loop with the status "expired" and
\* c holds no server connection on which a line was sent
Refused(c) ==
    /\ conn[c].status = "expired"
    /\ conn[c].thread \in {"closing", "dead"}
    /\ conn[c].connection # 0 => sconn[conn[c].connection].wire = <<>>

C30_TransientError ==
    [][\A c \in Conns :
          /\ \A sc \in {conn[c].connection} :
                ( /\ sc # 0
                  /\ conn[c].status # "expired"
                  /\ \/ ConsumerJoin(c, FALSE)
                     \/ ConsumerPrivmsg(c, FALSE)
                     \/ HandleEof /\ poll.sc = sc )
                => /\ sconn'[sc].socket = "none"
                   /\ conn'[c].status = "disconnected"
          /\ ( /\ conn[c].status = "disconnected"
               /\ conn[c].queue # <<>>
               /\ now <= conn[c].last_xmit + DISCONNECT_TTL
               /\ conn'[c].status = "expired" )
                => \E how \in {"fail", "certfail", "nickfail"}, seed \in NickSeeds :
                       ConsumerConnect(c, how, seed)
          ]_vars


\* C31: the poller thread never blocks forever: whenever it holds the mutex
\* of the IRC client and runs an event handler, it returns to its loop and
\* releases the mutex.
C31_PollerReturns == (poll.pc # "idle") ~> (poll.pc = "idle")


\* C32: while the poller thread is between collecting the open sockets and
\* the end of select and consume on them (it holds the mutex), no other
\* thread closes the socket of a listed server connection or sets its
\* socket field to None.
C32_NoCloseDuringSelect ==
    [][(poll.pc \notin {"idle", "dead"} /\ poll' = poll)
       => \A sc \in SCs :
             (sconn[sc].listed /\ sconn[sc].socket # "none")
                 => sconn'[sc].socket # "none"]_vars


LimitPairs(lump) ==
    LET toks == Split(Suffix(lump, 11), ",")
    IN  [i \in DOMAIN toks |-> Split(toks[i], ":")]

\* channel_limits after a token, as C34 states it; head is the text a
\* CHANLIMIT token is recognised by
LimitsAfter(limits, lump, head) ==
    IF StartsWith(lump, MAXCHANNELS)
    THEN [p \in DOMAIN limits \cup {"#", "&", "+"} |->
             IF p \in {"#", "&", "+"} THEN ToInt(Suffix(lump, 13), 0)
             ELSE limits[p]]
    ELSE IF StartsWith(lump, head)
    THEN LET pairs == LimitPairs(lump)
             named(i) == {pairs[i][1][k] : k \in DOMAIN pairs[i][1]}
             last(p) == CHOOSE i \in DOMAIN pairs :
                           /\ p \in named(i)
                           /\ \A j \in DOMAIN pairs : p \in named(j) => j <= i
         IN  [p \in DOMAIN limits \cup UNION {named(i) : i \in DOMAIN pairs} |->
                 IF \E i \in DOMAIN pairs : p \in named(i)
                 THEN ToInt(pairs[last(p)][2], 0)
                 ELSE limits[p]]
    ELSE limits

RECURSIVE LimitsAfterAll(_, _, _)
LimitsAfterAll(limits, lumps, head) ==
    IF lumps = <<>> THEN limits
    ELSE LimitsAfterAll(LimitsAfter(limits, Head(lumps), head), Tail(lumps), head)

\* the poller handles a featurelist event for a Connection
FeaturesHandled ==
    /\ poll.pc = "event" /\ poll.ev = "featurelist"
    /\ ctxOf(poll.sc) # 0
    /\ poll'.pc = "idle"

C35_ChannelCanonical ==
    (tgt.done /\ ~EndsWith(url.chan, ISNICK)) =>
        /\ \A i \in DOMAIN tgt.t.channel : LowerChar(tgt.t.channel[i]) = tgt.t.channel[i]
        /\ tgt.t.channel # <<>>
        /\ tgt.t.channel[1] \in {"#", "&", "+"}


\* C36: no exception leaves Irker.handle: whatever the request line and the
\* state of the relay, handle returns to the listener, having caught and
\* logged InvalidRequest, ValueError or RuntimeError at most.
C36_HandleReturns ==
    handleExc \in {"none", "InvalidRequest", "ValueError", "RuntimeError"}


\* C37: at most one thread runs Connection.dequeue for a Connection, also
\* when the stream and the datagram listener thread handle requests at the
\* same time and both call enqueue on one Connection.
C37_SingleConsumer == \A c \in Conns : lsn.dequeuers[c] <= 1


\* the Connections in the lists of the Dispatchers of Irker.servers
Dispatched ==
    {c \in Conns : \E ep \in DOMAIN servers :
        \E i \in DOMAIN servers[ep].connections : servers[ep].connections[i] = c}

\* C38: every Connection whose consumer thread is running its loop or whose
\* server connection has an open socket is in the connections list of a
\* Dispatcher of Irker.servers; in particular the Connections of a
\* Dispatcher evicted at the resource limit do not keep running.
C38_NoOrphans ==
    \A c \in 1 .. nconn :
        ( /\ conn[c].status # "expired"
          /\ \/ conn[c].thread \notin {"none", "closing", "dead"}
             \/ /\ conn[c].connection # 0
                /\ sconn[conn[c].connection].socket = "open" )
        => c \in Dispatched


\* the server connections on which the consumer thread of c has sent
UsedBy(c) ==
    {sc \in 1 .. nsc : \E i \in DOMAIN sconn[sc].wire :
                          sconn[sc].wire[i].by = <<"consumer", c>>}

\* C39: once a Connection is "expired" and its consumer thread has ended,
\* the server connection it used last has no socket and is not in the list
\* of the IRC client, on every path to "expired".
C39_ExpiredHoldsNoSocket ==
    \A c \in 1 .. nconn :
        (conn[c].status = "expired" /\ conn[c].thread = "dead")
        => \A sc \in UsedBy(c) :
              (\A other \in UsedBy(c) : other <= sc)
                  => (sconn[sc].socket = "none" /\ ~sconn[sc].listed)


\* C40: whatever line a server sends (a MAXCHANNELS token whose value is no
\* number, a KICK for a channel that was never joined), the poller loop
\* IRCClient.spin keeps running: no exception leaves it, so later lines of
\* every server connection are still read and handled.
C40_PollerSurvives == poll.pc \in {"idle", "event", "kick_chk", "kick_get", "kick_put"}

====
